---------------------------- MODULE Spec2Model ----------------------------
(***************************************************************************)
(* A model of pumpfun-rs: the initial buy price of the global account      *)
(* (src/src/accounts/global.rs), the event codec parse_event and the live  *)
(* event subscription subscribe / Subscription (src/src/common/stream.rs). *)
(*                                                                         *)
(* Representation choices (TLC's integers are 32 bits wide):               *)
(*  - a u64 of the price model is a WordBits-bit word and a u128 a         *)
(*    2*WordBits-bit word, so that the product of two words always fits    *)
(*    the wide type, as the product of two u64 fits a u128;                *)
(*  - a decoded u64 / i64 event field is its base-256 numeral, most        *)
(*    significant digit first (the little-endian wire bytes reversed);     *)
(*  - text is a sequence of ASCII codes, bytes are 0..255.                 *)
(***************************************************************************)
EXTENDS Integers, Sequences, FiniteSets, TLC

(***************************************************************************)
(* Bounds of the model.                                                    *)
(***************************************************************************)
\* width in bits of the scaled u64 of the price model
WordBits == 3
\* number of log batches the log source emits in one run
MaxBatches == 2
\* capacity of the delivery queue, scaled down from mpsc::channel(1000)
QueueCap == 2

\* parse_event: the longest tail after an unhandled or unknown discriminator
MaxTailLen == 2

\* parse_event: the generated event values are SampleValue(.., 0..MaxSeed, ..)
MaxSeed == 3

(***************************************************************************)
(* Sequence helpers.                                                       *)
(***************************************************************************)
RECURSIVE Reverse(_)
Reverse(s) ==
    IF s = <<>> THEN <<>> ELSE Append(Reverse(Tail(s)), Head(s))

Take(s, n) == SubSeq(s, 1, n)

DropFirst(s, n) == SubSeq(s, n + 1, Len(s))

RECURSIVE Repeat(_, _)
Repeat(x, n) ==
    IF n = 0 THEN <<>> ELSE <<x>> \o Repeat(x, n - 1)

IsPrefixOf(p, s) ==
    /\ Len(p) <= Len(s)
    /\ Take(s, Len(p)) = p

(***************************************************************************)
(* base64::engine::general_purpose::STANDARD.decode: the standard          *)
(* alphabet, canonical padding required, no trailing bits allowed.         *)
(***************************************************************************)
PadChar == 61

\* the 6-bit value of an ASCII code of the standard alphabet, -1 otherwise
B64Value(c) ==
    IF c >= 65 /\ c <= 90 THEN c - 65
    ELSE IF c >= 97 /\ c <= 122 THEN c - 71
    ELSE IF c >= 48 /\ c <= 57 THEN c + 4
    ELSE IF c = 43 THEN 62
    ELSE IF c = 47 THEN 63
    ELSE -1

\* the number of padding characters ending the text (at most two count)
B64PadCount(text) ==
    IF Len(text) >= 2 /\ text[Len(text)] = PadChar /\ text[Len(text) - 1] = PadChar
    THEN 2
    ELSE IF Len(text) >= 1 /\ text[Len(text)] = PadChar THEN 1
    ELSE 0

\* the bytes of a sequence of 6-bit values: 4 values give 3 bytes, a last
\* group of 3 gives 2 bytes and a last group of 2 gives 1 byte
B64Bytes(vals) ==
    [i \in 1..((Len(vals) * 3) \div 4) |->
        LET base == 4 * ((i - 1) \div 3)
            r    == (i - 1) % 3
        IN  IF r = 0 THEN vals[base + 1] * 4 + (vals[base + 2] \div 16)
            ELSE IF r = 1
            THEN (vals[base + 2] % 16) * 16 + (vals[base + 3] \div 4)
            ELSE (vals[base + 3] % 4) * 64 + vals[base + 4]]

\* the bits of the last symbol that no byte takes must be zero
B64TrailingBitsZero(vals, pad) ==
    IF pad = 0 THEN TRUE
    ELSE IF pad = 1 THEN vals[Len(vals)] % 4 = 0
    ELSE vals[Len(vals)] % 16 = 0

Base64Decode(text) ==
    LET pad  == B64PadCount(text)
        syms == Take(text, Len(text) - pad)
        vals == [i \in 1..Len(syms) |-> B64Value(syms[i])]
    IN  IF /\ Len(text) % 4 = 0
           /\ \A i \in 1..Len(vals) : vals[i] >= 0
           /\ (pad > 0 => Len(vals) >= 2)
           /\ B64TrailingBitsZero(vals, pad)
        THEN [ok |-> TRUE, bytes |-> B64Bytes(vals)]
        ELSE [ok |-> FALSE, bytes |-> <<>>]

(***************************************************************************)
(* The borsh codec the events derive (BorshDeserialize): fields in declared *)
(* order, fixed width, no padding; try_from_slice fails unless every byte   *)
(* of the slice is consumed.                                                *)
(***************************************************************************)
IsCont(b) == b >= 128 /\ b <= 191

\* String::from_utf8: well-formed UTF-8 only
RECURSIVE Utf8Valid(_)
Utf8Valid(b) ==
    IF b = <<>> THEN TRUE
    ELSE LET c == b[1]
             n == Len(b)
         IN  IF c <= 127 THEN Utf8Valid(DropFirst(b, 1))
             ELSE IF c >= 194 /\ c <= 223
             THEN n >= 2 /\ IsCont(b[2]) /\ Utf8Valid(DropFirst(b, 2))
             ELSE IF c >= 224 /\ c <= 239
             THEN /\ n >= 3
                  /\ IsCont(b[2])
                  /\ IsCont(b[3])
                  /\ (c = 224 => b[2] >= 160)
                  /\ (c = 237 => b[2] <= 159)
                  /\ Utf8Valid(DropFirst(b, 3))
             ELSE IF c >= 240 /\ c <= 244
             THEN /\ n >= 4
                  /\ IsCont(b[2])
                  /\ IsCont(b[3])
                  /\ IsCont(b[4])
                  /\ (c = 240 => b[2] >= 144)
                  /\ (c = 244 => b[2] <= 143)
                  /\ Utf8Valid(DropFirst(b, 4))
             ELSE FALSE

ReadFail == [ok |-> FALSE, value |-> <<>>, rest |-> <<>>]

\* u64 / i64 read as big-endian: the bytes are kept in wire order
ReadWord64_BigEndian(b) ==
    IF Len(b) < 8 THEN ReadFail
    ELSE [ok |-> TRUE, value |-> Take(b, 8), rest |-> DropFirst(b, 8)]

\* u64 / i64: 8 little-endian bytes; the value is kept as its numeral
ReadWord64(b) ==
    IF Len(b) < 8 THEN ReadFail
    ELSE [ok |-> TRUE, value |-> Reverse(Take(b, 8)), rest |-> DropFirst(b, 8)]

\* bool: one byte, 0 or 1; any other byte is an invalid representation
ReadBool(b) ==
    IF Len(b) < 1 \/ b[1] > 1 THEN ReadFail
    ELSE [ok |-> TRUE, value |-> (b[1] = 1), rest |-> DropFirst(b, 1)]

\* Pubkey: 32 raw bytes
ReadPubkey(b) ==
    IF Len(b) < 32 THEN ReadFail
    ELSE [ok |-> TRUE, value |-> Take(b, 32), rest |-> DropFirst(b, 32)]

\* [Pubkey; 8]: 8 keys, no length prefix
ReadPubkeyArray8(b) ==
    IF Len(b) < 256 THEN ReadFail
    ELSE [ok |-> TRUE,
          value |-> [i \in 1..8 |-> SubSeq(b, 32 * (i - 1) + 1, 32 * i)],
          rest |-> DropFirst(b, 256)]

\* String: a u32 little-endian length, then that many bytes of UTF-8.
\* A length of 65536 or more always exceeds the bytes that follow.
ReadString(b) ==
    IF Len(b) < 4 THEN ReadFail
    ELSE LET lenLo == b[1] + 256 * b[2]
             lenHi == b[3] + 256 * b[4]
             rest  == DropFirst(b, 4)
         IN  IF lenHi # 0 \/ lenLo > Len(rest) THEN ReadFail
             ELSE IF ~Utf8Valid(Take(rest, lenLo)) THEN ReadFail
             ELSE [ok |-> TRUE, value |-> Take(rest, lenLo),
                   rest |-> DropFirst(rest, lenLo)]

ReadField(type, b) ==
    CASE type = "u64" -> ReadWord64(b)
      [] type = "i64" -> ReadWord64(b)
      [] type = "bool" -> ReadBool(b)
      [] type = "Pubkey" -> ReadPubkey(b)
      [] type = "[Pubkey; 8]" -> ReadPubkeyArray8(b)
      [] type = "String" -> ReadString(b)

\* the fields of a layout read one after the other
RECURSIVE BorshRead(_, _, _)
BorshRead(layout, b, acc) ==
    IF layout = <<>> THEN [ok |-> TRUE, value |-> acc, rest |-> b]
    ELSE LET f == Head(layout)
             r == ReadField(f[2], b)
         IN  IF ~r.ok THEN ReadFail
             ELSE BorshRead(Tail(layout), r.rest, Append(acc, <<f[1], r.value>>))

\* try_from_slice that ignores bytes left after the last field
try_from_slice_AllowTrailing(layout, b) ==
    LET r == BorshRead(layout, b, <<>>)
    IN  IF r.ok THEN [ok |-> TRUE, value |-> r.value]
        ELSE [ok |-> FALSE, value |-> <<>>]

\* BorshDeserialize::try_from_slice
try_from_slice(layout, b) ==
    LET r == BorshRead(layout, b, <<>>)
    IN  IF r.ok /\ r.rest = <<>> THEN [ok |-> TRUE, value |-> r.value]
        ELSE [ok |-> FALSE, value |-> <<>>]

CreateEvent ==
    << <<"name", "String">>, <<"symbol", "String">>, <<"uri", "String">>,
       <<"mint", "Pubkey">>, <<"bonding_curve", "Pubkey">>, <<"user", "Pubkey">>,
       <<"creator", "Pubkey">>, <<"timestamp", "i64">>,
       <<"virtual_token_reserves", "u64">>, <<"virtual_sol_reserves", "u64">>,
       <<"real_token_reserves", "u64">>, <<"token_total_supply", "u64">> >>

TradeEvent ==
    << <<"mint", "Pubkey">>, <<"sol_amount", "u64">>, <<"token_amount", "u64">>,
       <<"is_buy", "bool">>, <<"user", "Pubkey">>, <<"timestamp", "i64">>,
       <<"virtual_sol_reserves", "u64">>, <<"virtual_token_reserves", "u64">>,
       <<"real_sol_reserves", "u64">>, <<"real_token_reserves", "u64">>,
       <<"fee_recipient", "Pubkey">>, <<"fee_basis_points", "u64">>,
       <<"fee", "u64">>, <<"creator", "Pubkey">>,
       <<"creator_fee_basis_points", "u64">>, <<"creator_fee", "u64">>,
       <<"track_volume", "bool">>, <<"total_unclaimed_tokens", "u64">>,
       <<"total_claimed_tokens", "u64">>, <<"current_sol_volume", "u64">>,
       <<"last_update_timestamp", "i64">> >>

CompleteEvent ==
    << <<"user", "Pubkey">>, <<"mint", "Pubkey">>,
       <<"bonding_curve", "Pubkey">>, <<"timestamp", "i64">> >>

SetParamsEvent ==
    << <<"initial_virtual_token_reserves", "u64">>,
       <<"initial_virtual_sol_reserves", "u64">>,
       <<"initial_real_token_reserves", "u64">>,
       <<"final_real_sol_reserves", "u64">>, <<"token_total_supply", "u64">>,
       <<"fee_basis_points", "u64">>, <<"withdraw_authority", "Pubkey">>,
       <<"enable_migrate", "bool">>, <<"pool_migration_fee", "u64">>,
       <<"creator_fee_basis_points", "u64">>,
       <<"fee_recipients", "[Pubkey; 8]">>, <<"timestamp", "i64">>,
       <<"set_creator_authority", "Pubkey">>,
       <<"admin_set_creator_authority", "Pubkey">> >>

(***************************************************************************)
(* parse_event: the discriminator table and the dispatch.                  *)
(***************************************************************************)
CreateDiscriminator == <<27, 114, 169, 77, 222, 235, 99, 118>>

TradeDiscriminator == <<189, 219, 127, 211, 78, 230, 97, 238>>

CompleteDiscriminator == <<95, 114, 97, 156, 212, 46, 152, 8>>

SetParamsDiscriminator == <<223, 195, 159, 246, 62, 48, 143, 131>>

\* the unhandled arm with its last pattern repeating the Trade discriminator
UnhandledDiscriminators_Duplicate ==
    << <<64, 69, 192, 104, 29, 30, 25, 107>>,
       <<245, 59, 70, 34, 75, 185, 109, 92>>,
       <<147, 250, 108, 120, 247, 29, 67, 222>>,
       <<79, 172, 246, 49, 205, 91, 206, 232>>,
       <<146, 159, 189, 172, 146, 88, 56, 244>>,
       <<122, 2, 127, 1, 14, 191, 12, 175>>,
       <<189, 233, 93, 185, 92, 148, 234, 148>>,
       <<97, 97, 215, 144, 93, 146, 22, 124>>,
       <<134, 36, 13, 72, 232, 101, 130, 216>>,
       <<237, 52, 123, 37, 245, 251, 72, 210>>,
       <<142, 203, 6, 32, 127, 105, 191, 162>>,
       <<197, 122, 167, 124, 116, 81, 91, 255>>,
       TradeDiscriminator >>

UnhandledDiscriminators ==
    << <<64, 69, 192, 104, 29, 30, 25, 107>>,
       <<245, 59, 70, 34, 75, 185, 109, 92>>,
       <<147, 250, 108, 120, 247, 29, 67, 222>>,
       <<79, 172, 246, 49, 205, 91, 206, 232>>,
       <<146, 159, 189, 172, 146, 88, 56, 244>>,
       <<122, 2, 127, 1, 14, 191, 12, 175>>,
       <<189, 233, 93, 185, 92, 148, 234, 148>>,
       <<97, 97, 215, 144, 93, 146, 22, 124>>,
       <<134, 36, 13, 72, 232, 101, 130, 216>>,
       <<237, 52, 123, 37, 245, 251, 72, 210>>,
       <<142, 203, 6, 32, 127, 105, 191, 162>>,
       <<197, 122, 167, 124, 116, 81, 91, 255>>,
       <<182, 195, 137, 42, 35, 206, 207, 247>> >>

\* Option::None of the event and of the error
NoEvent == [variant |-> "None", fields |-> <<>>, signature |-> "", bytes |-> <<>>]

NoError == ""

\* Ok(event) and Err(message)
OkResult(event) == [ok |-> TRUE, event |-> event, error |-> NoError]

ErrResult(message) == [ok |-> FALSE, event |-> NoEvent, error |-> message]

\* a decode failure reported without the event's name
DecodeEvent_WrongName(variant, layout, body) ==
    LET r == try_from_slice(layout, body)
    IN  IF r.ok
        THEN OkResult([variant |-> variant, fields |-> r.value,
                       signature |-> "", bytes |-> <<>>])
        ELSE ErrResult("Failed to decode event")

\* Ok(PumpFunEvent::X(X::try_from_slice(&decoded[8..]).map_err(..)?))
DecodeEvent(variant, layout, body) ==
    LET r == try_from_slice(layout, body)
    IN  IF r.ok
        THEN OkResult([variant |-> variant, fields |-> r.value,
                       signature |-> "", bytes |-> <<>>])
        ELSE ErrResult("Failed to decode " \o variant \o "Event")

\* Unhandled / Unknown carrying the bytes after the discriminator only
RawEvent_BodyOnly(variant, signature, decoded) ==
    OkResult([variant |-> variant, fields |-> <<>>,
              signature |-> signature,
              bytes |-> IF Len(decoded) < 8 THEN <<>> ELSE DropFirst(decoded, 8)])

\* PumpFunEvent::Unhandled(signature, decoded) / Unknown(signature, decoded)
RawEvent(variant, signature, decoded) ==
    OkResult([variant |-> variant, fields |-> <<>>,
              signature |-> signature, bytes |-> decoded])

\* parse_event without the length guard: a short buffer falls through the
\* dispatch to the Unknown arm
parse_event_NoLengthGuard(signature, data) ==
    LET dec == Base64Decode(data)
    IN  IF ~dec.ok THEN ErrResult("base64 decode error")
        ELSE LET decoded == dec.bytes
             IN  IF Len(decoded) < 8
                 THEN RawEvent("Unknown", signature, decoded)
                 ELSE LET discriminator == Take(decoded, 8)
                          body == DropFirst(decoded, 8)
                      IN  IF discriminator = CreateDiscriminator
                          THEN DecodeEvent("Create", CreateEvent, body)
                          ELSE IF discriminator = TradeDiscriminator
                          THEN DecodeEvent("Trade", TradeEvent, body)
                          ELSE IF discriminator = CompleteDiscriminator
                          THEN DecodeEvent("Complete", CompleteEvent, body)
                          ELSE IF discriminator = SetParamsDiscriminator
                          THEN DecodeEvent("SetParams", SetParamsEvent, body)
                          ELSE IF \E i \in 1..Len(UnhandledDiscriminators) :
                                      discriminator = UnhandledDiscriminators[i]
                          THEN RawEvent("Unhandled", signature, decoded)
                          ELSE RawEvent("Unknown", signature, decoded)

\* parse_event with a length guard of 4 bytes in place of 8
parse_event_ShortGuard(signature, data) ==
    LET dec == Base64Decode(data)
    IN  IF dec.ok /\ Len(dec.bytes) < 4
        THEN ErrResult("Data too short to contain discriminator")
        ELSE parse_event_NoLengthGuard(signature, data)

\* parse_event matching the unhandled discriminators on their first 7 bytes
parse_event_PrefixMatch(signature, data) ==
    LET dec == Base64Decode(data)
    IN  IF dec.ok /\ Len(dec.bytes) < 8
        THEN ErrResult("Data too short to contain discriminator")
        ELSE IF /\ dec.ok
                /\ \E i \in 1..Len(UnhandledDiscriminators) :
                       Take(dec.bytes, 7) = Take(UnhandledDiscriminators[i], 7)
        THEN RawEvent("Unhandled", signature, dec.bytes)
        ELSE parse_event_NoLengthGuard(signature, data)

\* parse_event with the Complete and SetParams arms exchanged
parse_event_SwappedArms(signature, data) ==
    LET dec == Base64Decode(data)
    IN  IF dec.ok /\ Len(dec.bytes) < 8
        THEN ErrResult("Data too short to contain discriminator")
        ELSE IF dec.ok /\ Take(dec.bytes, 8) = CompleteDiscriminator
        THEN DecodeEvent("SetParams", SetParamsEvent, DropFirst(dec.bytes, 8))
        ELSE IF dec.ok /\ Take(dec.bytes, 8) = SetParamsDiscriminator
        THEN DecodeEvent("Complete", CompleteEvent, DropFirst(dec.bytes, 8))
        ELSE parse_event_NoLengthGuard(signature, data)

parse_event(signature, data) ==
    LET dec == Base64Decode(data)
    IN  IF ~dec.ok THEN ErrResult("base64 decode error")
        ELSE LET decoded == dec.bytes
             IN  IF Len(decoded) < 8
                 THEN ErrResult("Data too short to contain discriminator")
                 ELSE LET discriminator == Take(decoded, 8)
                          body == DropFirst(decoded, 8)
                      IN  IF discriminator = CreateDiscriminator
                          THEN DecodeEvent("Create", CreateEvent, body)
                          ELSE IF discriminator = TradeDiscriminator
                          THEN DecodeEvent("Trade", TradeEvent, body)
                          ELSE IF discriminator = CompleteDiscriminator
                          THEN DecodeEvent("Complete", CompleteEvent, body)
                          ELSE IF discriminator = SetParamsDiscriminator
                          THEN DecodeEvent("SetParams", SetParamsEvent, body)
                          ELSE IF \E i \in 1..Len(UnhandledDiscriminators) :
                                      discriminator = UnhandledDiscriminators[i]
                          THEN RawEvent("Unhandled", signature, decoded)
                          ELSE RawEvent("Unknown", signature, decoded)

(***************************************************************************)
(* The log source's input: log lines and the batches that carry them.      *)
(* Base64Encode builds the payload lines; the program only decodes.        *)
(***************************************************************************)
B64Char(v) ==
    IF v < 26 THEN v + 65
    ELSE IF v < 52 THEN v + 71
    ELSE IF v < 62 THEN v - 4
    ELSE IF v = 62 THEN 43
    ELSE 47

Base64Encode(b) ==
    [k \in 1..(4 * ((Len(b) + 2) \div 3)) |->
        LET base == 3 * ((k - 1) \div 4)
            r    == (k - 1) % 4
            b1   == b[base + 1]
            b2   == IF base + 2 <= Len(b) THEN b[base + 2] ELSE 0
            b3   == IF base + 3 <= Len(b) THEN b[base + 3] ELSE 0
        IN  IF r = 0 THEN B64Char(b1 \div 4)
            ELSE IF r = 1 THEN B64Char((b1 % 4) * 16 + (b2 \div 16))
            ELSE IF r = 2
            THEN IF base + 2 > Len(b) THEN PadChar
                 ELSE B64Char((b2 % 16) * 4 + (b3 \div 64))
            ELSE IF base + 3 > Len(b) THEN PadChar
                 ELSE B64Char(b3 % 64)]

\* "Program data: "
ProgramDataPrefix == <<80, 114, 111, 103, 114, 97, 109, 32, 100, 97, 116, 97, 58, 32>>

\* "Program log: ok"
PlainLogLine == <<80, 114, 111, 103, 114, 97, 109, 32, 108, 111, 103, 58, 32, 111, 107>>

\* a public key made of one repeated byte
Key(n) == Repeat(n, 32)

\* the wire bytes of a CompleteEvent: user, mint, bonding_curve, timestamp
CompleteBody == Key(1) \o Key(2) \o Key(3) \o <<5, 1, 0, 0, 0, 0, 0, 0>>

PayloadLine(bytes) == ProgramDataPrefix \o Base64Encode(bytes)

\* The log lines of the input, and for each what the line is:
\*   "plain"     not a payload line (no "Program data: " prefix)
\*   "bad_b64"   a payload line whose data is not base64
\*   "short"     a payload of fewer than 8 bytes
\*   "bad_body"  a modeled discriminator and a body its layout rejects
\*   "Complete", "Unhandled", "Unknown"  a payload of that variant
LogLines ==
    << PlainLogLine,
       Take(ProgramDataPrefix, 13) \o Base64Encode(CompleteDiscriminator \o CompleteBody),
       ProgramDataPrefix \o <<33, 33, 33, 33>>,
       PayloadLine(<<1, 2, 3, 4, 5, 6, 7>>),
       PayloadLine(CompleteDiscriminator \o CompleteBody),
       PayloadLine(CompleteDiscriminator \o Take(CompleteBody, 50)),
       PayloadLine(UnhandledDiscriminators[1] \o <<9, 9>>),
       PayloadLine(<<1, 2, 3, 4, 5, 6, 7, 8, 7>>),
       ProgramDataPrefix \o <<65, 81, 73, 68, 81, 81>>,
       ProgramDataPrefix,
       PayloadLine(CompleteDiscriminator \o CompleteBody \o <<0>>) >>

LineKind ==
    << "plain", "plain", "bad_b64", "short", "Complete", "bad_body",
       "Unhandled", "Unknown", "bad_b64", "short", "bad_body" >>

\* The batches the log source may send: a transaction signature and the
\* log lines of the transaction (indices into LogLines).
Batches ==
    { [signature |-> "sigA", logs |-> <<1, 5, 3>>],
      [signature |-> "sigB", logs |-> <<4, 7>>],
      [signature |-> "sigC", logs |-> <<8, 2, 6>>],
      [signature |-> "sigD", logs |-> <<1>>],
      [signature |-> "sigE", logs |-> <<9, 10, 11>>] }

(***************************************************************************)
(* The inputs of parse_event called on its own: decoded buffers of every   *)
(* class of the dispatch, and texts that are not base64.  BorshWrite is    *)
(* the encoding the events derive (BorshSerialize).                        *)
(***************************************************************************)
WriteField(type, v) ==
    CASE type = "u64" -> Reverse(v)
      [] type = "i64" -> Reverse(v)
      [] type = "bool" -> << IF v THEN 1 ELSE 0 >>
      [] type = "Pubkey" -> v
      [] type = "[Pubkey; 8]" ->
             v[1] \o v[2] \o v[3] \o v[4] \o v[5] \o v[6] \o v[7] \o v[8]
      [] type = "String" -> << Len(v) % 256, Len(v) \div 256, 0, 0 >> \o v

\* the fields of a value written one after the other, in declared order
RECURSIVE BorshWrite(_, _)
BorshWrite(layout, value) ==
    IF layout = <<>> THEN <<>>
    ELSE WriteField(Head(layout)[2], Head(value)[2])
           \o BorshWrite(Tail(layout), Tail(value))

\* a 64-bit numeral for field j: 0, the maximum, or digits that differ
\* between the two ends
SampleWord(k, j) ==
    IF k = 0 THEN Repeat(0, 8)
    ELSE IF k = 1 THEN Repeat(255, 8)
    ELSE << k, j, 0, 0, 0, 0, j, k + j >>

SampleField(type, k, j, flags) ==
    CASE type = "u64" -> SampleWord(k, j)
      [] type = "i64" -> SampleWord(k, j)
      [] type = "bool" -> flags[(j % 2) + 1]
      [] type = "Pubkey" -> Key((16 * k + j) % 256)
      [] type = "[Pubkey; 8]" -> [i \in 1..8 |-> Key(16 * k + i)]
      [] type = "String" -> << 65 + k, 97 + j >>

\* a value of a layout: the fields as BorshRead returns them
SampleValue(layout, k, flags) ==
    [j \in 1..Len(layout) |->
        << layout[j][1], SampleField(layout[j][2], k, j, flags) >>]

SampleTail(n) == [i \in 1..n |-> (41 * i + 7) % 256]

\* the patterns of the match in the order of its arms
DiscriminatorTable ==
    << CreateDiscriminator, TradeDiscriminator, CompleteDiscriminator,
       SetParamsDiscriminator >> \o UnhandledDiscriminators

\* the 17 entries of the discriminator table
TableEntries ==
    { CreateDiscriminator, TradeDiscriminator, CompleteDiscriminator,
      SetParamsDiscriminator }
      \cup { UnhandledDiscriminators[i] : i \in 1..Len(UnhandledDiscriminators) }

ModeledEvents ==
    { [name |-> "Create", discriminator |-> CreateDiscriminator,
       layout |-> CreateEvent],
      [name |-> "Trade", discriminator |-> TradeDiscriminator,
       layout |-> TradeEvent],
      [name |-> "Complete", discriminator |-> CompleteDiscriminator,
       layout |-> CompleteEvent],
      [name |-> "SetParams", discriminator |-> SetParamsDiscriminator,
       layout |-> SetParamsEvent] }

\* an input: the base64 text, the buffer it encodes, the class of the input,
\* the modeled event its discriminator names and the value its body encodes
Case(bytes, expect, event, value) ==
    [data |-> Base64Encode(bytes), bytes |-> bytes, expect |-> expect,
     event |-> event, value |-> value]

TextCase(text) ==
    [data |-> text, bytes |-> <<>>, expect |-> "bad_b64", event |-> "",
     value |-> <<>>]

NoInput ==
    [data |-> <<>>, bytes |-> <<>>, expect |-> "none", event |-> "",
     value |-> <<>>]

\* buffers of 0..7 bytes: the beginnings of every table entry, zeros, 255s
ShortCases ==
    { Case(Take(d, n), "short", "", <<>>) :
        d \in TableEntries \cup { Repeat(0, 8), Repeat(255, 8) }, n \in 0..7 }

\* an unhandled discriminator and a tail of 0..MaxTailLen bytes, or a tail
\* that is the body of a TradeEvent
UnhandledCases ==
    { Case(d \o SampleTail(n), "Unhandled", "", <<>>) :
        d \in TableEntries \ { m.discriminator : m \in ModeledEvents },
        n \in 0..MaxTailLen }
      \cup { Case(UnhandledDiscriminators[1]
                    \o BorshWrite(TradeEvent,
                                  SampleValue(TradeEvent, 2, <<TRUE, FALSE>>)),
                  "Unhandled", "", <<>>) }

\* 8 bytes outside the table: an entry with its last or first byte altered,
\* zeros, 255s
UnknownDiscriminators ==
    ({ [d EXCEPT ![8] = (@ + 1) % 256] : d \in TableEntries }
       \cup { [d EXCEPT ![1] = (@ + 1) % 256] : d \in TableEntries }
       \cup { Repeat(0, 8), Repeat(255, 8) })
      \ TableEntries

UnknownCases ==
    { Case(d \o SampleTail(n), "Unknown", "", <<>>) :
        d \in UnknownDiscriminators, n \in 0..MaxTailLen }

SampleBody(layout) == BorshWrite(layout, SampleValue(layout, 2, <<TRUE, FALSE>>))

\* bodies no layout accepts: empty, one byte short, one byte long, cut in two
BrokenBodies(layout) ==
    LET body == SampleBody(layout)
    IN  { <<>>, Take(body, Len(body) - 1), body \o <<0>>,
          Take(body, Len(body) \div 2) }

\* a TradeEvent whose is_buy byte is 2; a CreateEvent whose name is not
\* UTF-8, whose name length exceeds the buffer, whose name length is 65538
BrokenFields(name, layout) ==
    LET body == SampleBody(layout)
    IN  IF name = "Trade" THEN { [body EXCEPT ![49] = 2] }
        ELSE IF name = "Create"
        THEN { [body EXCEPT ![5] = 255], [body EXCEPT ![1] = 200],
               [body EXCEPT ![3] = 1] }
        ELSE {}

BadBodyCases ==
    UNION { { Case(m.discriminator \o body, "bad_body", m.name, <<>>) :
                body \in BrokenBodies(m.layout) \cup BrokenFields(m.name, m.layout) } :
            m \in ModeledEvents }

ValidCases ==
    { Case(m.discriminator \o BorshWrite(m.layout, SampleValue(m.layout, k, flags)),
           "valid", m.name, SampleValue(m.layout, k, flags)) :
        m \in ModeledEvents, k \in 0..MaxSeed, flags \in BOOLEAN \X BOOLEAN }

\* the encoding of an event followed by 1..MaxTailLen more bytes, after the
\* event's own discriminator, after an unhandled one and after an unknown one
ExtraByteCases ==
    UNION { { Case(m.discriminator \o SampleBody(m.layout) \o SampleTail(n),
                   "extra_bytes", m.name, <<>>),
              Case(UnhandledDiscriminators[2] \o SampleBody(m.layout) \o SampleTail(n),
                   "Unhandled", m.name, <<>>),
              Case(Repeat(0, 8) \o SampleBody(m.layout) \o SampleTail(n),
                   "Unknown", m.name, <<>>) } :
            m \in ModeledEvents, n \in 1..MaxTailLen }

\* "!!!!", "QQ=" (padding missing), "QR==" (trailing bits), "A"
BadBase64Cases ==
    { TextCase(<<33, 33, 33, 33>>), TextCase(<<81, 81, 61>>),
      TextCase(<<81, 82, 61, 61>>), TextCase(<<65>>) }

Cases ==
    ShortCases \cup UnhandledCases \cup UnknownCases \cup BadBodyCases
      \cup ValidCases \cup ExtraByteCases \cup BadBase64Cases

CodecSignatures == { "sigA", "5VERv8NMvzbJMEkV8xnrLkEaWRtSz9CosKDYjCJjBRnb" }

(***************************************************************************)
(* GlobalAccount::get_initial_buy_price.  The u128 intermediates wrap      *)
(* modulo U128Modulus; with overflow checks on (a debug build) an          *)
(* overflowing operation panics instead.                                   *)
(***************************************************************************)
U64Max == 2 ^ WordBits - 1

U128Modulus == 2 ^ (2 * WordBits)

U64 == 0..U64Max

Overflows(x) == x < 0 \/ x >= U128Modulus

Wrap128(x) == ((x % U128Modulus) + U128Modulus) % U128Modulus

Returned(v) == [panic |-> FALSE, value |-> v]

Panicked == [panic |-> TRUE, value |-> 0]

\* get_initial_buy_price without the cap at initial_real_token_reserves
get_initial_buy_price_NoCap(g, amount, overflowChecks) ==
    IF amount = 0 THEN Returned(0)
    ELSE LET n == g.initial_virtual_sol_reserves * g.initial_virtual_token_reserves
             i == g.initial_virtual_sol_reserves + amount
             r == (Wrap128(n) \div Wrap128(i)) + 1
             s == g.initial_virtual_token_reserves - Wrap128(r)
         IN  IF overflowChecks /\ (Overflows(n) \/ Overflows(i) \/ Overflows(r) \/ Overflows(s))
             THEN Panicked
             ELSE Returned(Wrap128(s) % (U64Max + 1))

\* get_initial_buy_price with the quotient not incremented
get_initial_buy_price_NoPlusOne(g, amount, overflowChecks) ==
    IF amount = 0 THEN Returned(0)
    ELSE LET n == g.initial_virtual_sol_reserves * g.initial_virtual_token_reserves
             i == g.initial_virtual_sol_reserves + amount
             s == g.initial_virtual_token_reserves - (n \div i)
         IN  IF s < g.initial_real_token_reserves
             THEN Returned(s)
             ELSE Returned(g.initial_real_token_reserves)

\* get_initial_buy_price with u64 intermediates in place of u128
get_initial_buy_price_Narrow(g, amount, overflowChecks) ==
    IF amount = 0 THEN Returned(0)
    ELSE LET n == g.initial_virtual_sol_reserves * g.initial_virtual_token_reserves
             i == g.initial_virtual_sol_reserves + amount
             nn == n % (U64Max + 1)
             ii == i % (U64Max + 1)
         IN  IF ii = 0 \/ (overflowChecks /\ (n > U64Max \/ i > U64Max))
             THEN Panicked
             ELSE LET r == (nn \div ii) + 1
                      s == g.initial_virtual_token_reserves - r
                      ss == ((s % (U64Max + 1)) + U64Max + 1) % (U64Max + 1)
                  IN  IF overflowChecks /\ (s < 0 \/ r > U64Max) THEN Panicked
                      ELSE IF ss < g.initial_real_token_reserves
                      THEN Returned(ss)
                      ELSE Returned(g.initial_real_token_reserves)

\* get_initial_buy_price without the early return for amount = 0
get_initial_buy_price_NoZeroGuard(g, amount, overflowChecks) ==
    LET n == g.initial_virtual_sol_reserves * g.initial_virtual_token_reserves
        i == g.initial_virtual_sol_reserves + amount
    IN  IF Wrap128(i) = 0 THEN Panicked
        ELSE LET r == (Wrap128(n) \div Wrap128(i)) + 1
                 s == g.initial_virtual_token_reserves - Wrap128(r)
             IN  IF overflowChecks /\ (Overflows(n) \/ Overflows(i) \/ Overflows(r) \/ Overflows(s))
                 THEN Panicked
                 ELSE IF Wrap128(s) < g.initial_real_token_reserves
                 THEN Returned(Wrap128(s) % (U64Max + 1))
                 ELSE Returned(g.initial_real_token_reserves)

get_initial_buy_price(g, amount, overflowChecks) ==
    IF amount = 0 THEN Returned(0)
    ELSE LET n == g.initial_virtual_sol_reserves * g.initial_virtual_token_reserves
             i == g.initial_virtual_sol_reserves + amount
             r == (Wrap128(n) \div Wrap128(i)) + 1
             s == g.initial_virtual_token_reserves - Wrap128(r)
         IN  IF overflowChecks /\ (Overflows(n) \/ Overflows(i) \/ Overflows(r) \/ Overflows(s))
             THEN Panicked
             ELSE IF Wrap128(s) < g.initial_real_token_reserves
             THEN Returned(Wrap128(s) % (U64Max + 1))
             ELSE Returned(g.initial_real_token_reserves)

(***************************************************************************)
(* The instruction builders of PumpFun (src/src/lib.rs) and the buy / sell  *)
(* instructions (src/src/instructions).  A public key is a name; a derived *)
(* address is the tuple of its seeds.  Amounts are words of the price      *)
(* model.                                                                  *)
(***************************************************************************)
\* Option<u64>, Option<bool>, Option<Pubkey>
SomeOf(v) == [some |-> TRUE, value |-> v]

NoneU64 == [some |-> FALSE, value |-> 0]

NoneBool == [some |-> FALSE, value |-> FALSE]

NonePubkey == [some |-> FALSE, value |-> ""]

\* Option::unwrap_or with a default of 0 whatever the caller gives
unwrap_or_ZeroDefault(opt, default) == IF opt.some THEN opt.value ELSE 0

unwrap_or(opt, default) == IF opt.some THEN opt.value ELSE default

\* Pubkey::try_find_program_address: no address exists for NoPdaKey
NoPdaKey == "keyWithoutPda"

get_global_pda == << "global" >>

get_bonding_curve_pda(mint) ==
    IF mint = NoPdaKey THEN NonePubkey ELSE SomeOf(<< "bonding-curve", mint >>)

get_creator_vault_pda(creator) ==
    IF creator = NoPdaKey THEN NonePubkey ELSE SomeOf(<< "creator-vault", creator >>)

get_user_volume_accumulator_pda(user) == << "user_volume_accumulator", user >>

get_associated_token_address(owner, mint) == << "ata", owner, mint >>

\* AccountMeta::new and AccountMeta::new_readonly
AccountMetaNew(pubkey, is_signer) ==
    [pubkey |-> pubkey, is_signer |-> is_signer, is_writable |-> TRUE]

AccountMetaNewReadonly(pubkey, is_signer) ==
    [pubkey |-> pubkey, is_signer |-> is_signer, is_writable |-> FALSE]

\* a u64 serialized by borsh: 8 bytes, least significant first
U64Bytes(v) ==
    << v % 256, (v \div 256) % 256, (v \div 65536) % 256,
       (v \div 16777216) % 256, 0, 0, 0, 0 >>

\* an Option<bool> serialized by borsh: 0, or 1 and the bool
OptionBoolBytes(opt) ==
    IF opt.some THEN << 1, IF opt.value THEN 1 ELSE 0 >> ELSE << 0 >>

BuyDiscriminator == <<102, 6, 61, 18, 1, 218, 235, 234>>

SellDiscriminator == <<51, 230, 133, 164, 1, 127, 131, 173>>

\* Buy::data and Sell::data
BuyData(args) ==
    BuyDiscriminator \o U64Bytes(args.amount) \o U64Bytes(args.max_sol_cost)
      \o OptionBoolBytes(args.track_volume)

SellData(args) ==
    SellDiscriminator \o U64Bytes(args.amount) \o U64Bytes(args.min_sol_output)

\* a function that ran to its end with a value, or panicked
NoInstruction == [program_id |-> "", data |-> <<>>, accounts |-> <<>>]

Built(instruction) == [panic |-> FALSE, value |-> instruction]

BuildPanicked == [panic |-> TRUE, value |-> NoInstruction]

\* instructions::buy
buy(payer, mint, fee_recipient, creator, args) ==
    LET bonding_curve == get_bonding_curve_pda(mint)
        creator_vault == get_creator_vault_pda(creator)
    IN  IF ~bonding_curve.some \/ ~creator_vault.some THEN BuildPanicked
        ELSE Built(
          [program_id |-> "PUMPFUN",
           data |-> BuyData(args),
           accounts |->
             << AccountMetaNewReadonly(get_global_pda, FALSE),
                AccountMetaNew(fee_recipient, FALSE),
                AccountMetaNewReadonly(mint, FALSE),
                AccountMetaNew(bonding_curve.value, FALSE),
                AccountMetaNew(get_associated_token_address(bonding_curve.value, mint), FALSE),
                AccountMetaNew(get_associated_token_address(payer, mint), FALSE),
                AccountMetaNew(payer, TRUE),
                AccountMetaNewReadonly("SYSTEM_PROGRAM", FALSE),
                AccountMetaNewReadonly("TOKEN_PROGRAM", FALSE),
                AccountMetaNew(creator_vault.value, FALSE),
                AccountMetaNewReadonly("EVENT_AUTHORITY", FALSE),
                AccountMetaNewReadonly("PUMPFUN", FALSE),
                AccountMetaNew("GLOBAL_VOLUME_ACCUMULATOR", FALSE),
                AccountMetaNew(get_user_volume_accumulator_pda(payer), FALSE),
                AccountMetaNewReadonly("FEE_CONFIG", FALSE),
                AccountMetaNewReadonly("FEE_CONFIG_PROGRAM", FALSE) >>])

\* instructions::sell
sell(payer, mint, fee_recipient, creator, args) ==
    LET bonding_curve == get_bonding_curve_pda(mint)
        creator_vault == get_creator_vault_pda(creator)
    IN  IF ~bonding_curve.some \/ ~creator_vault.some THEN BuildPanicked
        ELSE Built(
          [program_id |-> "PUMPFUN",
           data |-> SellData(args),
           accounts |->
             << AccountMetaNewReadonly(get_global_pda, FALSE),
                AccountMetaNew(fee_recipient, FALSE),
                AccountMetaNewReadonly(mint, FALSE),
                AccountMetaNew(bonding_curve.value, FALSE),
                AccountMetaNew(get_associated_token_address(bonding_curve.value, mint), FALSE),
                AccountMetaNew(get_associated_token_address(payer, mint), FALSE),
                AccountMetaNew(payer, TRUE),
                AccountMetaNewReadonly("SYSTEM_PROGRAM", FALSE),
                AccountMetaNew(creator_vault.value, FALSE),
                AccountMetaNewReadonly("TOKEN_PROGRAM", FALSE),
                AccountMetaNewReadonly("EVENT_AUTHORITY", FALSE),
                AccountMetaNewReadonly("PUMPFUN", FALSE),
                AccountMetaNewReadonly("FEE_CONFIG", FALSE),
                AccountMetaNewReadonly("FEE_PROGRAM", FALSE) >>])

\* create_associated_token_account and close_account of the token crates
create_associated_token_account(funder, wallet, mint) ==
    [program_id |-> "ASSOCIATED_TOKEN_PROGRAM", data |-> <<>>,
     accounts |-> << AccountMetaNew(funder, TRUE),
                     AccountMetaNew(get_associated_token_address(wallet, mint), FALSE),
                     AccountMetaNewReadonly(wallet, FALSE),
                     AccountMetaNewReadonly(mint, FALSE),
                     AccountMetaNewReadonly("SYSTEM_PROGRAM", FALSE),
                     AccountMetaNewReadonly("TOKEN_PROGRAM", FALSE) >>]

close_account(account, destination, owner) ==
    [program_id |-> "TOKEN_PROGRAM", data |-> <<9>>,
     accounts |-> << AccountMetaNew(account, FALSE),
                     AccountMetaNew(destination, FALSE),
                     AccountMetaNewReadonly(owner, TRUE) >>]

\* The slippage helpers of utils: the base amount scaled by
\* (10000 + bps) / 10000 and by (10000 - bps) / 10000 in a wide intermediate,
\* truncated, then narrowed to u64.  A result above U64Max wraps or panics:
\* narrowing says which.
Narrow(wide, narrowing) ==
    IF wide <= U64Max THEN Returned(wide)
    ELSE IF narrowing = "panic" THEN Panicked
    ELSE Returned(wide % (U64Max + 1))

calculate_with_slippage_buy(amount, basis_points, narrowing) ==
    Narrow((amount * (10000 + basis_points)) \div 10000, narrowing)

\* the sell bound computed as amount - amount * bps / 10000
calculate_with_slippage_sell_Subtract(amount, basis_points, narrowing) ==
    Narrow(amount - ((amount * basis_points) \div 10000), narrowing)

calculate_with_slippage_sell(amount, basis_points, narrowing) ==
    Narrow((amount * (10000 - basis_points)) \div 10000, narrowing)

\* Result<T, ClientError>
OkOf(v) == [ok |-> TRUE, value |-> v, error |-> ""]

ErrOf(error, v) == [ok |-> FALSE, value |-> v, error |-> error]

\* Option<BondingCurveAccount>.  Of a bonding curve account the model keeps
\* the creator and what get_buy_price / get_sell_price return for the call's
\* amount (an Ok value or an Err).
NoCurve == [creator |-> "", buy_price |-> OkOf(0), sell_price |-> OkOf(0)]

NoneCurve == [some |-> FALSE, value |-> NoCurve]

NoGlobal ==
    [initial_virtual_token_reserves |-> 0, initial_virtual_sol_reserves |-> 0,
     initial_real_token_reserves |-> 0, fee_recipient |-> "",
     fee_basis_points |-> 0]

\* what a builder did: instructions returned, an error returned or a panic,
\* the RPC requests it made, and the tolerance it handed to the slippage
\* helper (None when it did not get that far)
Succeeded(instructions, rpc, basis_points) ==
    [outcome |-> "ok", error |-> "", instructions |-> instructions, rpc |-> rpc,
     basis_points |-> SomeOf(basis_points)]

Failed(error, rpc) ==
    [outcome |-> "err", error |-> error, instructions |-> <<>>, rpc |-> rpc,
     basis_points |-> NoneU64]

Aborted(rpc) ==
    [outcome |-> "panic", error |-> "", instructions |-> <<>>, rpc |-> rpc,
     basis_points |-> NoneU64]

\* PumpFun::get_global_account
get_global_account(env) ==
    IF env.global_fetch = "rpc_err" THEN ErrOf("SolanaClientError", NoGlobal)
    ELSE IF env.global_fetch = "borsh_err" THEN ErrOf("BorshError", NoGlobal)
    ELSE OkOf(env.global_account)

\* PumpFun::get_bonding_curve_account
get_bonding_curve_account(mint, env) ==
    IF ~get_bonding_curve_pda(mint).some THEN ErrOf("BondingCurveNotFound", NoCurve)
    ELSE IF env.curve_fetch = "rpc_err" THEN ErrOf("SolanaClientError", NoCurve)
    ELSE IF env.curve_fetch = "borsh_err" THEN ErrOf("BorshError", NoCurve)
    ELSE OkOf(env.curve)

\* the outcome of the block `let buy_amount = { .. }`
BuyAmount(outcome, value, error, bonding_curve_account, rpc) ==
    [outcome |-> outcome, value |-> value, error |-> error,
     bonding_curve_account |-> bonding_curve_account, rpc |-> rpc]

\* the block with the two price sources exchanged
buy_amount_Exchanged(global_account, mint, amount_sol, env, cfg) ==
    IF ~get_bonding_curve_pda(mint).some
    THEN BuyAmount("err", 0, "BondingCurveNotFound", NoneCurve, <<>>)
    ELSE IF env.probe = "ok"
    THEN LET price == get_initial_buy_price(global_account, amount_sol,
                                            cfg.overflowChecks)
         IN  IF price.panic
             THEN BuyAmount("panic", 0, "", NoneCurve, << "get_account(bonding_curve)" >>)
             ELSE BuyAmount("ok", price.value, "", NoneCurve,
                            << "get_account(bonding_curve)" >>)
    ELSE LET fetched == get_bonding_curve_account(mint, env)
             rpc == << "get_account(bonding_curve)", "get_account(bonding_curve)" >>
         IN  IF ~fetched.ok THEN BuyAmount("panic", 0, "", NoneCurve, rpc)
             ELSE IF ~fetched.value.buy_price.ok
             THEN BuyAmount("err", 0, "BondingCurveError", SomeOf(fetched.value), rpc)
             ELSE BuyAmount("ok", fetched.value.buy_price.value, "",
                            SomeOf(fetched.value), rpc)

\* get_buy_instructions: the block `let buy_amount = { .. }`, which also
\* assigns bonding_curve_account
buy_amount(global_account, mint, amount_sol, env, cfg) ==
    IF ~get_bonding_curve_pda(mint).some
    THEN BuyAmount("err", 0, "BondingCurveNotFound", NoneCurve, <<>>)
    ELSE IF env.probe = "err"
    THEN LET price == get_initial_buy_price(global_account, amount_sol,
                                            cfg.overflowChecks)
         IN  IF price.panic
             THEN BuyAmount("panic", 0, "", NoneCurve, << "get_account(bonding_curve)" >>)
             ELSE BuyAmount("ok", price.value, "", NoneCurve,
                            << "get_account(bonding_curve)" >>)
    ELSE LET fetched == get_bonding_curve_account(mint, env)
             rpc == << "get_account(bonding_curve)", "get_account(bonding_curve)" >>
         IN  \* .ok() makes the failure None, .as_ref().unwrap() panics on it
             IF ~fetched.ok THEN BuyAmount("panic", 0, "", NoneCurve, rpc)
             ELSE IF ~fetched.value.buy_price.ok
             THEN BuyAmount("err", 0, "BondingCurveError", SomeOf(fetched.value), rpc)
             ELSE BuyAmount("ok", fetched.value.buy_price.value, "",
                            SomeOf(fetched.value), rpc)

\* PumpFun::get_buy_instructions
get_buy_instructions(payer, mint, amount_sol, track_volume, slippage_basis_points, env, cfg) ==
    LET fetched == get_global_account(env)
        global_account == fetched.value
        rpc1 == << "get_account(global)" >>
    IN  IF ~fetched.ok THEN Failed(fetched.error, rpc1)
        ELSE
        LET amount == buy_amount(global_account, mint, amount_sol, env, cfg)
            rpc2 == rpc1 \o amount.rpc
        IN  IF amount.outcome = "err" THEN Failed(amount.error, rpc2)
            ELSE IF amount.outcome = "panic" THEN Aborted(rpc2)
            ELSE
            LET buy_amount_with_slippage ==
                    calculate_with_slippage_buy(
                        amount_sol, unwrap_or(slippage_basis_points, 500),
                        cfg.narrowing)
                rpc3 == IF cfg.create_ata THEN rpc2 \o << "get_account(ata)" >>
                        ELSE rpc2
                ata_instructions ==
                    IF cfg.create_ata /\ env.ata_probe = "err"
                    THEN << create_associated_token_account(payer, payer, mint) >>
                    ELSE <<>>
                bonding_curve_account == amount.bonding_curve_account
                instruction ==
                    buy(payer, mint, global_account.fee_recipient,
                        IF bonding_curve_account.some
                        THEN bonding_curve_account.value.creator
                        ELSE payer,
                        [amount |-> amount.value,
                         max_sol_cost |-> buy_amount_with_slippage.value,
                         track_volume |-> track_volume])
            IN  IF buy_amount_with_slippage.panic THEN Aborted(rpc2)
                ELSE IF instruction.panic THEN Aborted(rpc3)
                ELSE Succeeded(ata_instructions \o << instruction.value >>, rpc3,
                               unwrap_or(slippage_basis_points, 500))

\* PumpFun::get_buy_instructions_offline_prepared
get_buy_instructions_offline_prepared(payer, mint, creator, amount_sol, buy_amount_arg, track_volume, slippage_basis_points, global_account, cfg) ==
    LET buy_amount_with_slippage ==
            calculate_with_slippage_buy(
                amount_sol, unwrap_or(slippage_basis_points, 500), cfg.narrowing)
        instruction ==
            buy(payer, mint, global_account.fee_recipient, creator,
                [amount |-> buy_amount_arg,
                 max_sol_cost |-> buy_amount_with_slippage.value,
                 track_volume |-> track_volume])
    IN  IF buy_amount_with_slippage.panic \/ instruction.panic THEN Aborted(<<>>)
        ELSE Succeeded((IF cfg.create_ata
                        THEN << create_associated_token_account(payer, payer, mint) >>
                        ELSE <<>>) \o << instruction.value >>, <<>>,
                       unwrap_or(slippage_basis_points, 500))

\* PumpFun::get_sell_instructions
get_sell_instructions(payer, mint, amount_token, slippage_basis_points, env, cfg) ==
    LET ata == get_associated_token_address(payer, mint)
        need_balance == ~amount_token.some \/ cfg.close_ata
        rpc1 == IF need_balance THEN << "get_token_account_balance(ata)" >> ELSE <<>>
    IN  IF need_balance /\ env.balance_fetch = "rpc_err"
        THEN Failed("SolanaClientError", rpc1)
        ELSE IF need_balance /\ env.balance_fetch = "unparsable" THEN Aborted(rpc1)
        ELSE
        LET token_balance == IF need_balance THEN SomeOf(env.balance) ELSE NoneU64
            amount == IF amount_token.some THEN amount_token.value
                      ELSE token_balance.value
            fetched == get_global_account(env)
            global_account == fetched.value
            rpc2 == rpc1 \o << "get_account(global)" >>
            curve == get_bonding_curve_account(mint, env)
            bonding_curve_account == curve.value
            rpc3 == IF get_bonding_curve_pda(mint).some
                    THEN rpc2 \o << "get_account(bonding_curve)" >>
                    ELSE rpc2
        IN  IF ~fetched.ok THEN Failed(fetched.error, rpc2)
            ELSE IF ~curve.ok THEN Failed(curve.error, rpc3)
            ELSE IF ~bonding_curve_account.sell_price.ok
            THEN Failed("BondingCurveError", rpc3)
            ELSE
            LET min_sol_output ==
                    calculate_with_slippage_sell(
                        bonding_curve_account.sell_price.value,
                        unwrap_or(slippage_basis_points, 500), cfg.narrowing)
                instruction ==
                    sell(payer, mint, global_account.fee_recipient,
                         bonding_curve_account.creator,
                         [amount |-> amount,
                          min_sol_output |-> min_sol_output.value])
                closing == cfg.close_ata /\ token_balance.value = amount
                rpc4 == IF closing THEN rpc3 \o << "get_account(ata)" >> ELSE rpc3
            IN  IF min_sol_output.panic \/ instruction.panic THEN Aborted(rpc3)
                ELSE Succeeded(
                       << instruction.value >>
                         \o (IF closing /\ env.ata_probe = "ok"
                             THEN << close_account(ata, payer, payer) >>
                             ELSE <<>>),
                       rpc4, unwrap_or(slippage_basis_points, 500))

\* get_sell_instructions_offline_prepared selling nothing when no amount is given
get_sell_instructions_offline_prepared_UnwrapOr(payer, mint, creator, amount_sol, amount_token, slippage_basis_points, global_account, close_ata, cfg) ==
    LET ata == get_associated_token_address(payer, mint)
        min_sol_output ==
            calculate_with_slippage_sell(
                amount_sol, unwrap_or(slippage_basis_points, 500), cfg.narrowing)
        instruction ==
            sell(payer, mint, global_account.fee_recipient, creator,
                 [amount |-> unwrap_or(amount_token, 0),
                  min_sol_output |-> min_sol_output.value])
    IN  IF min_sol_output.panic \/ instruction.panic THEN Aborted(<<>>)
        ELSE Succeeded(<< instruction.value >>
                         \o (IF cfg.close_ata /\ close_ata
                             THEN << close_account(ata, payer, payer) >>
                             ELSE <<>>),
                       <<>>, unwrap_or(slippage_basis_points, 500))

\* PumpFun::get_sell_instructions_offline_prepared
get_sell_instructions_offline_prepared(payer, mint, creator, amount_sol, amount_token, slippage_basis_points, global_account, close_ata, cfg) ==
    LET ata == get_associated_token_address(payer, mint)
    IN  \* amount_token.unwrap()
        IF ~amount_token.some THEN Aborted(<<>>)
        ELSE
        LET amount == amount_token.value
            min_sol_output ==
                calculate_with_slippage_sell(
                    amount_sol, unwrap_or(slippage_basis_points, 500), cfg.narrowing)
            instruction ==
                sell(payer, mint, global_account.fee_recipient, creator,
                     [amount |-> amount,
                      min_sol_output |-> min_sol_output.value])
        IN  IF min_sol_output.panic \/ instruction.panic THEN Aborted(<<>>)
            ELSE Succeeded(<< instruction.value >>
                             \o (IF cfg.close_ata /\ close_ata
                                 THEN << close_account(ata, payer, payer) >>
                                 ELSE <<>>),
                           <<>>, unwrap_or(slippage_basis_points, 500))

(***************************************************************************)
(* subscribe and Subscription: the state.                                  *)
(***************************************************************************)
VARIABLES
    callerPc,       \* the caller of subscribe: "start", "failed" (Err returned),
                    \* "holding" (Ok(Subscription) returned), "dropped"
    readerPc,       \* the task that reads the log stream: "none", "subscribing",
                    \* "panicked", "next", "lines", "send_wait", "finished", "aborted"
    deliveryPc,     \* the task that calls the callback: "none", "recv",
                    \* "callback", "finished"
    unsubscribeFn,  \* _unsubscribe of logs_subscribe: "none", "held", "dropped", "called"
    tx,             \* the channel of the Subscription's unsubscribe closure
    stream,         \* the batches the log source has sent and the reader not yet taken
    streamClosed,   \* the log source has ended the stream
    consumed,       \* the batches the reader has taken, in order; the last is `log`
    lineIdx,        \* the next line of the last batch the reader looks at
    cb,             \* the queue between the reader and the delivery task
    sending,        \* the item the reader waits to send
    calls,          \* the callback's invocations, in order
    global,         \* the GlobalAccount of the price model
    priceCall,      \* the last call of get_initial_buy_price and its outcome
    prevCall,       \* the call of get_initial_buy_price before the last
    codecCall,      \* the call of parse_event and its outcome
    builderCall     \* the call of an instruction builder and its outcome

subVars ==
    << callerPc, readerPc, deliveryPc, unsubscribeFn, tx, stream, streamClosed,
       consumed, lineIdx, cb, sending, calls >>

priceVars == << global, priceCall, prevCall >>

codecVars == << codecCall >>

builderVars == << builderCall >>

vars == << subVars, priceVars, codecVars, builderVars >>

NoItem ==
    [signature |-> "", event |-> NoEvent, error |-> NoError,
     log |-> [signature |-> "", logs |-> <<>>], batch |-> 0, line |-> 0]

NoCall == [made |-> FALSE, amount |-> 0, overflowChecks |-> FALSE, result |-> Returned(0)]

\* let (tx, _) = mpsc::channel(1): the receiver is dropped at once
UnsubscribeChannel == [capacity |-> 1, receiverDropped |-> TRUE, buf |-> <<>>]

\* Sender::try_send
try_send(ch, msg) ==
    IF ch.receiverDropped \/ Len(ch.buf) >= ch.capacity THEN ch
    ELSE [ch EXCEPT !.buf = Append(@, msg)]

\* strip_prefix that does not compare the last character of the prefix
strip_prefix_Loose(line, prefix) ==
    IF IsPrefixOf(Take(prefix, Len(prefix) - 1), line)
    THEN [some |-> TRUE, rest |-> DropFirst(line, Len(prefix) - 1)]
    ELSE [some |-> FALSE, rest |-> <<>>]

\* str::strip_prefix
strip_prefix(line, prefix) ==
    IF IsPrefixOf(prefix, line)
    THEN [some |-> TRUE, rest |-> DropFirst(line, Len(prefix))]
    ELSE [some |-> FALSE, rest |-> <<>>]

Signatures == {b.signature : b \in Batches}

\* log_line.strip_prefix("Program data: ") of every log line, and parse_event
\* of what is left of it under every signature: evaluated once
StrippedLine ==
    [i \in 1..Len(LogLines) |-> strip_prefix(LogLines[i], ProgramDataPrefix)]

ParsedLine ==
    [sig \in Signatures |->
        [i \in 1..Len(LogLines) |-> parse_event(sig, StrippedLine[i].rest)]]

\* the tuple the reader sends for a payload line: (signature, Some(event), None,
\* log) or (signature, None, Some(err), log); batch and line record where the
\* line was in the stream
MakeItem(log, batch, line) ==
    LET r == ParsedLine[log.signature][log.logs[line]]
    IN  [signature |-> log.signature, event |-> r.event, error |-> r.error,
         log |-> log, batch |-> batch, line |-> line]

\* a channel that always has room
HasRoom_Unbounded(q) == TRUE

\* the bounded mpsc channel cb_tx / cb_rx
HasRoom(q) == Len(q) < QueueCap

\* a queue that puts the newest item first
EnqueueFront(q, item) == <<item>> \o q

Enqueue(q, item) == Append(q, item)

ReaderAlive == readerPc \in {"subscribing", "next", "lines", "send_wait"}

ReaderEnded == readerPc \in {"panicked", "finished", "aborted"}

SubscriptionEstablished == readerPc \in {"next", "lines", "send_wait"}

Log == consumed[Len(consumed)]

InitSub ==
    /\ callerPc = "start"
    /\ readerPc = "none"
    /\ deliveryPc = "none"
    /\ unsubscribeFn = "none"
    /\ tx = UnsubscribeChannel
    /\ stream = <<>>
    /\ streamClosed = FALSE
    /\ consumed = <<>>
    /\ lineIdx = 1
    /\ cb = <<>>
    /\ sending = NoItem
    /\ calls = <<>>

NoCodecCall ==
    [made |-> FALSE, signature |-> "", input |-> NoInput,
     result |-> ErrResult(NoError)]

InitCodec == codecCall = NoCodecCall

\* the arguments of the builders, the answers of the RPC node and the build
NoArgs ==
    [mint |-> "", creator |-> "", amount_sol |-> 0, buy_amount |-> 0,
     amount_token |-> NoneU64, track_volume |-> NoneBool,
     slippage_basis_points |-> NoneU64, close_ata |-> FALSE]

NoEnv ==
    [global_fetch |-> "ok", global_account |-> NoGlobal, probe |-> "err",
     curve_fetch |-> "ok", curve |-> NoCurve, ata_probe |-> "err",
     balance_fetch |-> "ok", balance |-> 0]

NoCfg ==
    [create_ata |-> FALSE, close_ata |-> FALSE, overflowChecks |-> FALSE,
     narrowing |-> "wrap"]

NoBuilderCall ==
    [made |-> FALSE, fn |-> "none", args |-> NoArgs, env |-> NoEnv,
     cfg |-> NoCfg, result |-> Failed("", <<>>)]

InitBuilder == builderCall = NoBuilderCall

InitPrice ==
    /\ global = [initial_virtual_token_reserves |-> 0,
                 initial_virtual_sol_reserves |-> 0,
                 initial_real_token_reserves |-> 0]
    /\ priceCall = NoCall
    /\ prevCall = NoCall

Init == InitSub /\ InitPrice /\ InitCodec /\ InitBuilder

(***************************************************************************)
(* subscribe: the connection, the two channels, the two tasks.             *)
(***************************************************************************)
Subscribe(connectOk) ==
    /\ callerPc = "start"
    /\ IF connectOk
       THEN /\ callerPc' = "holding"
            /\ deliveryPc' = "recv"
            /\ readerPc' = "subscribing"
       ELSE /\ callerPc' = "failed"
            /\ UNCHANGED << deliveryPc, readerPc >>
    /\ UNCHANGED << unsubscribeFn, tx, stream, streamClosed, consumed, lineIdx,
                    cb, sending, calls, priceVars, codecVars, builderVars >>

\* the reader task's logs_subscribe(..).await.unwrap()
LogsSubscribe(ok) ==
    /\ readerPc = "subscribing"
    /\ IF ok
       THEN readerPc' = "next" /\ unsubscribeFn' = "held"
       ELSE readerPc' = "panicked" /\ UNCHANGED unsubscribeFn
    /\ UNCHANGED << callerPc, deliveryPc, tx, stream, streamClosed, consumed,
                    lineIdx, cb, sending, calls, priceVars, codecVars, builderVars >>

\* the log source sends a batch
SourceEmit(batch) ==
    /\ SubscriptionEstablished
    /\ ~streamClosed
    /\ Len(consumed) + Len(stream) < MaxBatches
    /\ stream' = Append(stream, batch)
    /\ UNCHANGED << callerPc, readerPc, deliveryPc, unsubscribeFn, tx,
                    streamClosed, consumed, lineIdx, cb, sending, calls, priceVars, codecVars, builderVars >>

\* the log source ends the stream
SourceClose ==
    /\ SubscriptionEstablished
    /\ ~streamClosed
    /\ streamClosed' = TRUE
    /\ UNCHANGED << callerPc, readerPc, deliveryPc, unsubscribeFn, tx, stream,
                    consumed, lineIdx, cb, sending, calls, priceVars, codecVars, builderVars >>

\* stream.next().await gives Some(log)
ReaderNext ==
    /\ readerPc = "next"
    /\ stream # <<>>
    /\ consumed' = Append(consumed, Head(stream))
    /\ stream' = Tail(stream)
    /\ lineIdx' = 1
    /\ readerPc' = IF Head(stream).logs = <<>> THEN "next" ELSE "lines"
    /\ UNCHANGED << callerPc, deliveryPc, unsubscribeFn, tx, streamClosed, cb,
                    sending, calls, priceVars, codecVars, builderVars >>

\* stream.next().await gives None: the task ends, cb_tx and _unsubscribe drop
ReaderStreamEnd ==
    /\ readerPc = "next"
    /\ stream = <<>>
    /\ streamClosed
    /\ readerPc' = "finished"
    /\ unsubscribeFn' = "dropped"
    /\ UNCHANGED << callerPc, deliveryPc, tx, stream, streamClosed, consumed,
                    lineIdx, cb, sending, calls, priceVars, codecVars, builderVars >>

\* the reader's place after the line at lineIdx
AfterLine == IF lineIdx + 1 > Len(Log.logs) THEN "next" ELSE "lines"

\* one turn of `for log_line in &log.value.logs`, up to cb_tx.send(..).await
ReaderLine ==
    /\ readerPc = "lines"
    /\ LET data == StrippedLine[Log.logs[lineIdx]]
           item == MakeItem(Log, Len(consumed), lineIdx)
       IN  IF ~data.some
           THEN /\ lineIdx' = lineIdx + 1
                /\ readerPc' = AfterLine
                /\ UNCHANGED << cb, sending >>
           ELSE IF HasRoom(cb)
           THEN /\ cb' = Enqueue(cb, item)
                /\ lineIdx' = lineIdx + 1
                /\ readerPc' = AfterLine
                /\ UNCHANGED sending
           ELSE /\ readerPc' = "send_wait"
                /\ sending' = item
                /\ UNCHANGED << cb, lineIdx >>
    /\ UNCHANGED << callerPc, deliveryPc, unsubscribeFn, tx, stream, streamClosed,
                    consumed, calls, priceVars, codecVars, builderVars >>

\* cb_tx.send(..).await completes once the queue has room
ReaderSendResume ==
    /\ readerPc = "send_wait"
    /\ HasRoom(cb)
    /\ cb' = Enqueue(cb, sending)
    /\ sending' = NoItem
    /\ lineIdx' = lineIdx + 1
    /\ readerPc' = AfterLine
    /\ UNCHANGED << callerPc, deliveryPc, unsubscribeFn, tx, stream, streamClosed,
                    consumed, calls, priceVars, codecVars, builderVars >>

\* cb_rx.recv().await gives Some(..): the callback is called
DeliveryRecv ==
    /\ deliveryPc = "recv"
    /\ cb # <<>>
    /\ calls' = Append(calls, Head(cb))
    /\ cb' = Tail(cb)
    /\ deliveryPc' = "callback"
    /\ UNCHANGED << callerPc, readerPc, unsubscribeFn, tx, stream, streamClosed,
                    consumed, lineIdx, sending, priceVars, codecVars, builderVars >>

\* the callback returns
CallbackReturn ==
    /\ deliveryPc = "callback"
    /\ deliveryPc' = "recv"
    /\ UNCHANGED << callerPc, readerPc, unsubscribeFn, tx, stream, streamClosed,
                    consumed, lineIdx, cb, sending, calls, priceVars, codecVars, builderVars >>

\* recv() giving None only after the reader ran to the end of the stream
DeliveryEnd_OnlyStreamEnd ==
    /\ deliveryPc = "recv"
    /\ cb = <<>>
    /\ readerPc = "finished"
    /\ deliveryPc' = "finished"
    /\ UNCHANGED << callerPc, readerPc, unsubscribeFn, tx, stream, streamClosed,
                    consumed, lineIdx, cb, sending, calls, priceVars, codecVars, builderVars >>

\* cb_rx.recv().await gives None: the queue is empty and cb_tx is dropped
DeliveryEnd ==
    /\ deliveryPc = "recv"
    /\ cb = <<>>
    /\ ReaderEnded
    /\ deliveryPc' = "finished"
    /\ UNCHANGED << callerPc, readerPc, unsubscribeFn, tx, stream, streamClosed,
                    consumed, lineIdx, cb, sending, calls, priceVars, codecVars, builderVars >>

\* Drop for Subscription: (self.unsubscribe)(); self.task.abort()
SubscriptionDrop ==
    /\ callerPc = "holding"
    /\ callerPc' = "dropped"
    /\ tx' = try_send(tx, "unsubscribe")
    /\ IF ReaderAlive
       THEN /\ readerPc' = "aborted"
            /\ unsubscribeFn' = IF unsubscribeFn = "held" THEN "dropped" ELSE unsubscribeFn
            /\ sending' = NoItem
            /\ stream' = <<>>
       ELSE UNCHANGED << readerPc, unsubscribeFn, sending, stream >>
    /\ UNCHANGED << deliveryPc, streamClosed, consumed, lineIdx, cb, calls, priceVars, codecVars, builderVars >>

ReaderStep == ReaderNext \/ ReaderStreamEnd \/ ReaderLine \/ ReaderSendResume

Next ==
    \/ \E connectOk \in BOOLEAN : Subscribe(connectOk)
    \/ \E ok \in BOOLEAN : LogsSubscribe(ok)
    \/ \E batch \in Batches : SourceEmit(batch)
    \/ SourceClose
    \/ ReaderStep
    \/ DeliveryRecv
    \/ CallbackReturn
    \/ DeliveryEnd
    \/ SubscriptionDrop

Spec == Init /\ [][Next]_vars

\* The delivery task is a spawned tokio task: the runtime polls it whenever
\* recv() can complete.  "Every handler invocation returns" is the fairness
\* of CallbackReturn.
LiveSpec ==
    /\ Spec
    /\ WF_vars(DeliveryRecv)
    /\ WF_vars(CallbackReturn)
    /\ WF_vars(DeliveryEnd)

(***************************************************************************)
(* The price model: every GlobalAccount of the word width, every amount,   *)
(* both build profiles.                                                    *)
(***************************************************************************)
PriceInit ==
    /\ InitSub
    /\ global \in [initial_virtual_token_reserves : U64,
                   initial_virtual_sol_reserves : U64,
                   initial_real_token_reserves : U64]
    /\ priceCall = NoCall
    /\ prevCall = NoCall
    /\ InitCodec
    /\ InitBuilder

\* up to two calls on the same account, by the same build
CallGetInitialBuyPrice(amount, overflowChecks) ==
    /\ ~prevCall.made
    /\ priceCall.made => overflowChecks = priceCall.overflowChecks
    /\ priceCall' = [made |-> TRUE, amount |-> amount,
                     overflowChecks |-> overflowChecks,
                     result |-> get_initial_buy_price(global, amount, overflowChecks)]
    /\ prevCall' = priceCall
    /\ UNCHANGED << global, subVars, codecVars, builderVars >>

PriceNext ==
    \E amount \in U64, overflowChecks \in BOOLEAN :
        CallGetInitialBuyPrice(amount, overflowChecks)

PriceSpec == PriceInit /\ [][PriceNext]_vars

(***************************************************************************)
(* The codec model: parse_event called once on an input of Cases.          *)
(***************************************************************************)
ParsedCase ==
    [c \in Cases |-> [signature \in CodecSignatures |->
                          parse_event(signature, c.data)]]

CodecInit ==
    /\ InitSub
    /\ InitPrice
    /\ InitCodec
    /\ InitBuilder

CallParseEvent(signature, c) ==
    /\ ~codecCall.made
    /\ codecCall' = [made |-> TRUE, signature |-> signature, input |-> c,
                     result |-> ParsedCase[c][signature]]
    /\ UNCHANGED << subVars, priceVars, builderVars >>

CodecNext ==
    \E signature \in CodecSignatures, c \in Cases : CallParseEvent(signature, c)

CodecSpec == CodecInit /\ [][CodecNext]_vars

(***************************************************************************)
(* The builder model: one call of one instruction builder, with every      *)
(* answer the RPC node can give and every build (features, overflow        *)
(* checks).  Tolerances are within 0..10000.                               *)
(***************************************************************************)
Payer == "payer"

\* every key the builders are given has its program addresses: no key is
\* known for which the derivation finds no bump seed
Mints == { "mintA", "mintB" }

Creators == { "curveCreator", "otherCreator" }

TrackVolumes == { NoneBool, SomeOf(TRUE), SomeOf(FALSE) }

Slippages == { NoneU64, SomeOf(0), SomeOf(500), SomeOf(2500), SomeOf(10000) }

TokenAmounts == { NoneU64, SomeOf(0), SomeOf(3), SomeOf(U64Max) }

GlobalAccounts ==
    { [initial_virtual_token_reserves |-> vt,
       initial_virtual_sol_reserves |-> U64Max,
       initial_real_token_reserves |-> U64Max \div 2,
       fee_recipient |-> "feeRecipient", fee_basis_points |-> 1] :
      vt \in { 0, U64Max } }

CurveAccounts ==
    { [creator |-> "curveCreator", buy_price |-> OkOf(U64Max - 2),
       sell_price |-> OkOf(U64Max - 1)],
      [creator |-> "curveCreator", buy_price |-> ErrOf("overflow", 0),
       sell_price |-> ErrOf("overflow", 0)] }

\* the answers of the node, fixed where the builder does not get that far
Envs ==
    { e \in [global_fetch : { "rpc_err", "borsh_err", "ok" },
             global_account : GlobalAccounts \cup { NoGlobal },
             probe : { "err", "ok" },
             curve_fetch : { "rpc_err", "borsh_err", "ok" },
             curve : CurveAccounts \cup { NoCurve },
             ata_probe : { "err", "ok" },
             balance_fetch : { "rpc_err", "unparsable", "ok" },
             balance : { 0, 3, U64Max }] :
        /\ (e.global_fetch = "ok") = (e.global_account # NoGlobal)
        /\ (e.curve_fetch = "ok") = (e.curve # NoCurve)
        /\ e.balance_fetch # "ok" => e.balance = 0 }

BuyEnvs ==
    { e \in Envs :
        /\ e.balance_fetch = "ok" /\ e.balance = 0
        /\ e.global_fetch # "ok" => e.probe = "err"
        /\ e.probe = "err" => e.curve_fetch = "rpc_err" }

SellEnvs ==
    { e \in Envs :
        /\ e.probe = "ok"
        /\ e.balance_fetch # "ok" => e.global_fetch = "rpc_err"
        /\ e.global_fetch # "ok" => e.curve_fetch = "rpc_err" }

Cfgs ==
    [create_ata : BOOLEAN, close_ata : BOOLEAN, overflowChecks : BOOLEAN,
     narrowing : { "wrap", "panic" }]

CallGetBuyInstructions ==
    /\ ~builderCall.made
    /\ \E mint \in Mints, amount_sol \in U64, track_volume \in TrackVolumes,
          slippage_basis_points \in Slippages, env \in BuyEnvs, cfg \in Cfgs :
         /\ ~cfg.close_ata
         /\ ~cfg.create_ata => env.ata_probe = "err"
         /\ builderCall' =
              [made |-> TRUE, fn |-> "get_buy_instructions",
               args |-> [NoArgs EXCEPT
                           !.mint = mint, !.amount_sol = amount_sol,
                           !.track_volume = track_volume,
                           !.slippage_basis_points = slippage_basis_points],
               env |-> env, cfg |-> cfg,
               result |-> get_buy_instructions(
                              Payer, mint, amount_sol, track_volume,
                              slippage_basis_points, env, cfg)]
    /\ UNCHANGED << subVars, priceVars, codecVars >>

CallGetBuyInstructionsOfflinePrepared ==
    /\ ~builderCall.made
    /\ \E mint \in Mints, creator \in Creators, amount_sol \in U64,
          buy_amount_arg \in { 0, U64Max }, track_volume \in TrackVolumes,
          slippage_basis_points \in Slippages,
          global_account \in GlobalAccounts, cfg \in Cfgs :
         /\ ~cfg.close_ata /\ ~cfg.overflowChecks
         /\ builderCall' =
              [made |-> TRUE, fn |-> "get_buy_instructions_offline_prepared",
               args |-> [NoArgs EXCEPT
                           !.mint = mint, !.creator = creator,
                           !.amount_sol = amount_sol,
                           !.buy_amount = buy_amount_arg,
                           !.track_volume = track_volume,
                           !.slippage_basis_points = slippage_basis_points],
               env |-> [NoEnv EXCEPT !.global_account = global_account],
               cfg |-> cfg,
               result |-> get_buy_instructions_offline_prepared(
                              Payer, mint, creator, amount_sol, buy_amount_arg,
                              track_volume, slippage_basis_points,
                              global_account, cfg)]
    /\ UNCHANGED << subVars, priceVars, codecVars >>

CallGetSellInstructions ==
    /\ ~builderCall.made
    /\ \E mint \in Mints, amount_token \in TokenAmounts,
          slippage_basis_points \in Slippages, env \in SellEnvs, cfg \in Cfgs :
         /\ ~cfg.create_ata /\ ~cfg.overflowChecks
         /\ ~cfg.close_ata => env.ata_probe = "err"
         /\ (amount_token.some /\ ~cfg.close_ata) =>
                (env.balance_fetch = "ok" /\ env.balance = 0)
         /\ builderCall' =
              [made |-> TRUE, fn |-> "get_sell_instructions",
               args |-> [NoArgs EXCEPT
                           !.mint = mint, !.amount_token = amount_token,
                           !.slippage_basis_points = slippage_basis_points],
               env |-> env, cfg |-> cfg,
               result |-> get_sell_instructions(
                              Payer, mint, amount_token, slippage_basis_points,
                              env, cfg)]
    /\ UNCHANGED << subVars, priceVars, codecVars >>

CallGetSellInstructionsOfflinePrepared ==
    /\ ~builderCall.made
    /\ \E mint \in Mints, creator \in Creators, amount_sol \in U64,
          amount_token \in TokenAmounts, slippage_basis_points \in Slippages,
          global_account \in GlobalAccounts, close_ata \in BOOLEAN,
          cfg \in Cfgs :
         /\ ~cfg.create_ata /\ ~cfg.overflowChecks
         /\ builderCall' =
              [made |-> TRUE, fn |-> "get_sell_instructions_offline_prepared",
               args |-> [NoArgs EXCEPT
                           !.mint = mint, !.creator = creator,
                           !.amount_sol = amount_sol,
                           !.amount_token = amount_token,
                           !.slippage_basis_points = slippage_basis_points,
                           !.close_ata = close_ata],
               env |-> [NoEnv EXCEPT !.global_account = global_account],
               cfg |-> cfg,
               result |-> get_sell_instructions_offline_prepared(
                              Payer, mint, creator, amount_sol, amount_token,
                              slippage_basis_points, global_account, close_ata,
                              cfg)]
    /\ UNCHANGED << subVars, priceVars, codecVars >>

BuilderInit ==
    /\ InitSub
    /\ InitPrice
    /\ InitCodec
    /\ InitBuilder

BuilderNext ==
    \/ CallGetBuyInstructions
    \/ CallGetBuyInstructionsOfflinePrepared
    \/ CallGetSellInstructions
    \/ CallGetSellInstructionsOfflinePrepared

BuilderSpec == BuilderInit /\ [][BuilderNext]_vars

(***************************************************************************)
(* The claims about subscribe and Subscription, under Spec.                *)
(***************************************************************************)
\* the items that reached the queue, in the order they entered it
Items == calls \o cb

\* what the line of an item is (see LineKind)
KindOf(item) == LineKind[item.log.logs[item.line]]

Malformed == {"bad_b64", "short", "bad_body"}

\* the lines of consumed batch b the reader is done with
DoneLines(b) ==
    IF b < Len(consumed) THEN 1..Len(consumed[b].logs) ELSE 1..(lineIdx - 1)

\* the unsubscribe requests that reached the log source: the calls of
\* _unsubscribe and the messages the unsubscribe channel took
UnsubscribeSignals == (IF unsubscribeFn = "called" THEN 1 ELSE 0) + Len(tx.buf)

ReaderHasWork ==
    \/ readerPc \in {"lines", "send_wait"}
    \/ readerPc = "next" /\ (stream # <<>> \/ streamClosed)

\* C1: if the connection or the log-subscription request fails, subscribe
\* returns an error: the caller never holds a Subscription whose log
\* subscription failed.
C1_NoSubscriptionWithoutLogs ==
    ~(callerPc = "holding" /\ readerPc = "panicked")

\* C2: with the delivery queue full, the reader drops the newest item and goes
\* on to the next line: it never waits for room in the queue.
C2_ReaderNeverWaitsForRoom ==
    readerPc # "send_wait"

\* C3: while the callback is running (it may never return), the reader task
\* that has a line or a batch to work on can take its next step.
C3_ReaderIndependentOfCallback ==
    (deliveryPc = "callback" /\ ReaderHasWork) => ENABLED ReaderStep

\* C4: the callback sees the items in the order of their source lines: batch
\* order, then line order inside a batch; successes and errors alike.
C4_DeliveryOrder ==
    \A i, j \in 1..Len(calls) :
        i < j => \/ calls[i].batch < calls[j].batch
                 \/ calls[i].batch = calls[j].batch /\ calls[i].line < calls[j].line

C4_Witness ==
    /\ Len(calls) >= 3
    /\ calls[1].batch # calls[3].batch
    /\ \E i \in 1..Len(calls) : calls[i].error # NoError
    /\ \E i \in 1..Len(calls) : calls[i].event # NoEvent

\* C5: once the Subscription is dropped, exactly one unsubscribe signal has
\* reached the log source and the reader task has ended.
C5_DropUnsubscribesOnce ==
    callerPc = "dropped" => (UnsubscribeSignals = 1 /\ ReaderEnded)

\* C6: once the Subscription is dropped, both tasks are stopped: the callback is
\* not called again, whatever is still in the queue.
C6_NoCallbackAfterDrop ==
    [][callerPc = "dropped" => calls' = calls]_vars

\* C7: a malformed payload line (bad base64, fewer than 8 bytes, bad body of a
\* modeled event) that the reader is done with gives exactly one item, with no
\* event and an error, and ends neither task: the reader ends only by the
\* failed subscription request, the end of the stream or the drop, the
\* delivery task only after the reader.
C7_MalformedIsolated ==
    /\ \A b \in 1..Len(consumed) : \A l \in DoneLines(b) :
          LineKind[consumed[b].logs[l]] \in Malformed =>
              /\ Cardinality({k \in 1..Len(Items) :
                     Items[k].batch = b /\ Items[k].line = l}) = 1
              /\ \A k \in 1..Len(Items) :
                     (Items[k].batch = b /\ Items[k].line = l) =>
                         Items[k].event = NoEvent /\ Items[k].error # NoError
    /\ readerPc = "panicked" => consumed = <<>>
    /\ readerPc = "finished" => streamClosed /\ stream = <<>>
    /\ readerPc = "aborted" => callerPc = "dropped"
    /\ deliveryPc = "finished" => ReaderEnded

C7_Witness ==
    \E i, j \in 1..Len(calls) :
        /\ i < j
        /\ KindOf(calls[i]) = "bad_b64"
        /\ calls[i].error # NoError
        /\ calls[j].batch > calls[i].batch
        /\ KindOf(calls[j]) = "short"

\* C8: of the lines of the received batches the reader is done with, exactly
\* those that start with "Program data: " gave a queue item, one each, with the
\* batch's signature and exactly one of event and error; the other lines gave
\* none.
C8_PayloadExtraction ==
    /\ {<<Items[k].batch, Items[k].line>> : k \in 1..Len(Items)}
         = UNION {{<<b, l>> : l \in {m \in DoneLines(b) :
                                       LineKind[consumed[b].logs[m]] # "plain"}} :
                  b \in 1..Len(consumed)}
    /\ \A k1, k2 \in 1..Len(Items) :
          (Items[k1].batch = Items[k2].batch /\ Items[k1].line = Items[k2].line)
              => k1 = k2
    /\ \A k \in 1..Len(Items) :
          /\ Items[k].signature = consumed[Items[k].batch].signature
          /\ Items[k].log = consumed[Items[k].batch]
          /\ (Items[k].event = NoEvent) # (Items[k].error = NoError)

C8_Witness ==
    /\ Len(consumed) = 2
    /\ \A b \in 1..2 : \E l \in DoneLines(b) : LineKind[consumed[b].logs[l]] = "plain"
    /\ lineIdx > Len(Log.logs)
    /\ Len(calls) = 4
    /\ cb = <<>>
    /\ \E k \in 1..4 : KindOf(calls[k]) = "Unknown"

(***************************************************************************)
(* The claims about get_initial_buy_price, under PriceSpec.                *)
(***************************************************************************)
\* C9: for every reserve configuration and every amount > 0, the amount
\* get_initial_buy_price returns is at most initial_real_token_reserves.
C9_PriceCapped ==
    (priceCall.made /\ priceCall.amount > 0 /\ ~priceCall.result.panic) =>
        priceCall.result.value <= global.initial_real_token_reserves

C9_Witness ==
    /\ priceCall.made
    /\ priceCall.amount = U64Max
    /\ global.initial_virtual_token_reserves = U64Max
    /\ global.initial_virtual_sol_reserves = U64Max
    /\ global.initial_real_token_reserves = U64Max \div 2
    /\ ~priceCall.result.panic
    /\ priceCall.result.value = global.initial_real_token_reserves

\* C10: get_initial_buy_price(0) returns 0 for every GlobalAccount.
C10_ZeroAmountZeroPrice ==
    (priceCall.made /\ priceCall.amount = 0) => priceCall.result = Returned(0)

C10_Witness ==
    /\ priceCall.made
    /\ priceCall.amount = 0
    /\ global.initial_virtual_token_reserves > 0
    /\ global.initial_virtual_sol_reserves > 0
    /\ global.initial_real_token_reserves > 0
    /\ priceCall.result = Returned(0)

\* the tokens out of the reference formula, in the integers
ReferenceTokensOut(g, amount) ==
    g.initial_virtual_token_reserves
      - (((g.initial_virtual_sol_reserves * g.initial_virtual_token_reserves)
            \div (g.initial_virtual_sol_reserves + amount)) + 1)

\* C11 as claimed: the returned amount is 0 if and only if the SOL amount is 0.
C11_ZeroIffZeroAmount ==
    (priceCall.made /\ ~priceCall.result.panic) =>
        (priceCall.result.value = 0 <=> priceCall.amount = 0)

\* C11 as amended: for an amount > 0 the returned amount is 0 exactly when
\* initial_real_token_reserves is 0 or floor(vs * vt / (vs + amount)) + 1 = vt,
\* and strictly positive otherwise.
C11_ZeroPriceCases ==
    (priceCall.made /\ priceCall.amount > 0 /\ ~priceCall.result.panic) =>
        (priceCall.result.value = 0 <=>
            \/ global.initial_real_token_reserves = 0
            \/ ReferenceTokensOut(global, priceCall.amount) = 0)

C11_Witness ==
    /\ priceCall.made
    /\ priceCall.amount = 1
    /\ global.initial_virtual_token_reserves = U64Max
    /\ global.initial_virtual_sol_reserves = U64Max
    /\ global.initial_real_token_reserves = U64Max \div 2
    /\ priceCall.result = Returned(0)

\* C12: for fixed reserves and amounts a <= b, the amount returned for a is at
\* most the amount returned for b.
C12_Monotone ==
    (/\ prevCall.made
     /\ priceCall.made
     /\ ~prevCall.result.panic
     /\ ~priceCall.result.panic
     /\ prevCall.amount <= priceCall.amount) =>
        prevCall.result.value <= priceCall.result.value

C12_Witness ==
    /\ prevCall.made
    /\ priceCall.made
    /\ prevCall.amount = 1
    /\ priceCall.amount = U64Max
    /\ global.initial_virtual_token_reserves = U64Max
    /\ global.initial_virtual_sol_reserves = U64Max
    /\ global.initial_real_token_reserves = U64Max
    /\ prevCall.result.value < priceCall.result.value
    /\ priceCall.result.value < U64Max

\* C13: for an amount > 0 the returned amount is initial_real_token_reserves
\* when the reference tokens out reach it, and the reference tokens out
\* otherwise.
C13_MatchesReference ==
    (priceCall.made /\ priceCall.amount > 0 /\ ~priceCall.result.panic) =>
        priceCall.result.value =
            IF ReferenceTokensOut(global, priceCall.amount)
                   >= global.initial_real_token_reserves
            THEN global.initial_real_token_reserves
            ELSE ReferenceTokensOut(global, priceCall.amount)

\* C14: get_initial_buy_price has no error path: every call returns a value, no
\* intermediate step leaves the unsigned wide range.
C14_NoErrorPath ==
    priceCall.made => ~priceCall.result.panic

(***************************************************************************)
(* The claims about parse_event, under CodecSpec.                          *)
(***************************************************************************)
\* the call was made on the base64 text of a decoded buffer
ParsedBuffer ==
    /\ codecCall.made
    /\ codecCall.input.expect # "bad_b64"
    /\ codecCall.input.data = Base64Encode(codecCall.input.bytes)

\* C15: a decoded buffer of fewer than 8 bytes yields the "too short" error,
\* never an event value, whatever its content.
C15_LengthGuard ==
    (ParsedBuffer /\ Len(codecCall.input.bytes) < 8) =>
        codecCall.result =
            [ok |-> FALSE,
             event |-> [variant |-> "None", fields |-> <<>>, signature |-> "",
                        bytes |-> <<>>],
             error |-> "Data too short to contain discriminator"]

C15_Witness ==
    /\ ParsedBuffer
    /\ codecCall.input.bytes = <<189, 219, 127, 211, 78, 230, 97>>
    /\ ~codecCall.result.ok
    /\ codecCall.result.error = "Data too short to contain discriminator"

\* C16: a buffer starting with one of the 13 unmodeled discriminators yields
\* Unhandled(signature, bytes) with the caller's signature and the whole
\* buffer, discriminator included, for every tail length.
C16_UnhandledCarriesBuffer ==
    (/\ ParsedBuffer
     /\ Len(codecCall.input.bytes) >= 8
     /\ \E i \in 1..13 :
            Take(codecCall.input.bytes, 8) = UnhandledDiscriminators[i]) =>
        codecCall.result =
            [ok |-> TRUE,
             event |-> [variant |-> "Unhandled", fields |-> <<>>,
                        signature |-> codecCall.signature,
                        bytes |-> codecCall.input.bytes],
             error |-> ""]

C16_Witness ==
    /\ ParsedBuffer
    /\ codecCall.signature = "sigA"
    /\ codecCall.input.bytes = <<182, 195, 137, 42, 35, 206, 207, 247>>
    /\ codecCall.result.ok
    /\ codecCall.result.event.variant = "Unhandled"
    /\ codecCall.result.event.signature = "sigA"
    /\ codecCall.result.event.bytes = <<182, 195, 137, 42, 35, 206, 207, 247>>

\* C17: a buffer of at least 8 bytes whose first 8 bytes are none of the 17
\* table entries yields Unknown(signature, bytes) with the caller's signature
\* and the whole buffer: never an error, never Unhandled.
C17_UnknownCarriesBuffer ==
    (/\ ParsedBuffer
     /\ Len(codecCall.input.bytes) >= 8
     /\ Take(codecCall.input.bytes, 8) \notin TableEntries) =>
        codecCall.result =
            [ok |-> TRUE,
             event |-> [variant |-> "Unknown", fields |-> <<>>,
                        signature |-> codecCall.signature,
                        bytes |-> codecCall.input.bytes],
             error |-> ""]

C17_Witness ==
    /\ ParsedBuffer
    /\ codecCall.input.bytes = <<64, 69, 192, 104, 29, 30, 25, 108, 48, 89>>
    /\ codecCall.result.ok
    /\ codecCall.result.event.variant = "Unknown"
    /\ codecCall.result.event.bytes = codecCall.input.bytes

\* C18: a modeled discriminator followed by a body its layout rejects yields
\* an error that names that event type, and no event.
C18_DecodeFailureNamesEvent ==
    (ParsedBuffer /\ codecCall.input.expect = "bad_body") =>
        /\ ~codecCall.result.ok
        /\ codecCall.result.event.variant = "None"
        /\ codecCall.result.error =
               "Failed to decode " \o codecCall.input.event \o "Event"

C18_Witness ==
    /\ ParsedBuffer
    /\ codecCall.input.expect = "bad_body"
    /\ Take(codecCall.input.bytes, 8) = <<189, 219, 127, 211, 78, 230, 97, 238>>
    /\ Len(codecCall.input.bytes) = 8 + 250
    /\ codecCall.input.bytes[8 + 49] = 2
    /\ codecCall.result.error = "Failed to decode TradeEvent"

\* the event type an outcome belongs to: the variant of a value, the event
\* named by a decode error
OutcomeClass(r) ==
    IF r.ok THEN r.event.variant
    ELSE IF r.error = "Failed to decode CreateEvent" THEN "Create"
    ELSE IF r.error = "Failed to decode TradeEvent" THEN "Trade"
    ELSE IF r.error = "Failed to decode CompleteEvent" THEN "Complete"
    ELSE IF r.error = "Failed to decode SetParamsEvent" THEN "SetParams"
    ELSE "Error"

\* C19: every input yields exactly one outcome, a value of one of the six
\* variants or an error, and the first 8 bytes alone determine the variant.
C19_TotalClassification ==
    codecCall.made =>
        /\ codecCall.result.ok =>
              /\ codecCall.result.event.variant \in
                     { "Create", "Trade", "Complete", "SetParams", "Unhandled",
                       "Unknown" }
              /\ codecCall.result.error = ""
        /\ ~codecCall.result.ok =>
              /\ codecCall.result.event.variant = "None"
              /\ codecCall.result.error # ""
        /\ (ParsedBuffer /\ Len(codecCall.input.bytes) >= 8) =>
              LET d == Take(codecCall.input.bytes, 8)
                  class == OutcomeClass(codecCall.result)
              IN  /\ d = <<27, 114, 169, 77, 222, 235, 99, 118>> => class = "Create"
                  /\ d = <<189, 219, 127, 211, 78, 230, 97, 238>> => class = "Trade"
                  /\ d = <<95, 114, 97, 156, 212, 46, 152, 8>> => class = "Complete"
                  /\ d = <<223, 195, 159, 246, 62, 48, 143, 131>> =>
                         class = "SetParams"
                  /\ d \notin { <<27, 114, 169, 77, 222, 235, 99, 118>>,
                                <<189, 219, 127, 211, 78, 230, 97, 238>>,
                                <<95, 114, 97, 156, 212, 46, 152, 8>>,
                                <<223, 195, 159, 246, 62, 48, 143, 131>> } =>
                         /\ codecCall.result.ok
                         /\ class \in { "Unhandled", "Unknown" }
        /\ codecCall.input.expect = "valid" =>
              /\ codecCall.result.ok
              /\ codecCall.result.event.variant = codecCall.input.event

C19_Witness ==
    /\ ParsedBuffer
    /\ Len(codecCall.input.bytes) >= 8
    /\ Take(codecCall.input.bytes, 8) = <<223, 195, 159, 246, 62, 48, 143, 131>>
    /\ codecCall.result.ok
    /\ codecCall.result.event.variant = "SetParams"
    /\ Len(codecCall.result.event.fields) = 14

\* C20: the Trade discriminator followed by the encoding of a TradeEvent t,
\* field by field in declared order, parses to Trade(t).
C20_TradeRoundTrip ==
    (/\ ParsedBuffer
     /\ codecCall.input.expect = "valid"
     /\ codecCall.input.event = "Trade") =>
        codecCall.result =
            [ok |-> TRUE,
             event |-> [variant |-> "Trade", fields |-> codecCall.input.value,
                        signature |-> "", bytes |-> <<>>],
             error |-> ""]

C20_Witness ==
    /\ ParsedBuffer
    /\ codecCall.input.expect = "valid"
    /\ codecCall.input.event = "Trade"
    /\ codecCall.input.bytes =
           <<189, 219, 127, 211, 78, 230, 97, 238>>
             \o BorshWrite(TradeEvent, codecCall.input.value)
    /\ codecCall.input.value[2] = << "sol_amount", <<3, 2, 0, 0, 0, 0, 2, 5>> >>
    /\ codecCall.input.value[4] = << "is_buy", TRUE >>
    /\ codecCall.input.value[17] = << "track_volume", FALSE >>
    /\ codecCall.result.ok
    /\ codecCall.result.event.variant = "Trade"
    /\ codecCall.result.event.fields[2] = << "sol_amount", <<3, 2, 0, 0, 0, 0, 2, 5>> >>
    /\ codecCall.result.event.fields[21] =
           << "last_update_timestamp", <<3, 21, 0, 0, 0, 0, 21, 24>> >>

(***************************************************************************)
(* Further claims about subscribe and Subscription.                        *)
(***************************************************************************)
\* C25: the queue between the reader task and the delivery task never holds
\* more than its capacity; only the reader task adds to it and only the
\* delivery task takes from it.
C25_BoundedQueue ==
    /\ [](Len(cb) <= QueueCap)
    /\ [][cb' # cb =>
            \/ /\ Len(cb') = Len(cb) + 1
               /\ SubSeq(cb', 1, Len(cb)) = cb
               /\ readerPc \in {"lines", "send_wait"}
               /\ deliveryPc' = deliveryPc
               /\ calls' = calls
            \/ /\ cb' = Tail(cb)
               /\ deliveryPc = "recv"
               /\ deliveryPc' = "callback"
               /\ readerPc' = readerPc
               /\ lineIdx' = lineIdx]_vars

C25_Witness ==
    /\ Len(cb) = QueueCap
    /\ readerPc = "send_wait"
    /\ sending # NoItem

\* C28: once the reader task has ended (aborted by the drop, stream closed, or
\* panicked on the subscription request) the delivery task empties the queue
\* and terminates, provided every handler invocation returns.
C28_DeliveryTerminates ==
    (readerPc \in {"panicked", "finished", "aborted"})
        ~> (deliveryPc = "finished" /\ cb = <<>>)

C28_Witness ==
    /\ readerPc = "aborted"
    /\ deliveryPc = "finished"
    /\ cb = <<>>
    /\ Len(calls) > QueueCap

(***************************************************************************)
(* Further claims about parse_event, under CodecSpec.                      *)
(***************************************************************************)
\* the arms of the match whose pattern equals the first 8 bytes of the input
MatchingArms ==
    { i \in 1..Len(DiscriminatorTable) :
        DiscriminatorTable[i] = Take(codecCall.input.bytes, 8) }

\* C26: the 4 modeled and 13 unmodeled discriminators are 17 pairwise
\* distinct sequences of 8 bytes, so at most one arm matches any input.
C26_DiscriminatorsDistinct ==
    /\ Len(DiscriminatorTable) = 17
    /\ \A i \in 1..Len(DiscriminatorTable) :
          /\ Len(DiscriminatorTable[i]) = 8
          /\ \A n \in 1..8 : DiscriminatorTable[i][n] \in 0..255
    /\ \A i, j \in 1..Len(DiscriminatorTable) :
          i # j => DiscriminatorTable[i] # DiscriminatorTable[j]
    /\ (ParsedBuffer /\ Len(codecCall.input.bytes) >= 8) =>
          Cardinality(MatchingArms) <= 1

C26_Witness ==
    /\ ParsedBuffer
    /\ Len(codecCall.input.bytes) >= 8
    /\ MatchingArms = {2}
    /\ codecCall.result.ok
    /\ codecCall.result.event.variant = "Trade"

\* C27: an event's encoding followed by extra bytes is a decode error of that
\* event after its own discriminator, and is carried whole in the raw buffer
\* after an unmodeled or unknown discriminator.
C27_ExactLength ==
    /\ (ParsedBuffer /\ codecCall.input.expect = "extra_bytes") =>
          codecCall.result =
              [ok |-> FALSE,
               event |-> [variant |-> "None", fields |-> <<>>,
                          signature |-> "", bytes |-> <<>>],
               error |-> "Failed to decode " \o codecCall.input.event \o "Event"]
    /\ (/\ ParsedBuffer
        /\ codecCall.input.expect \in {"Unhandled", "Unknown"}
        /\ codecCall.input.event # "") =>
          codecCall.result =
              [ok |-> TRUE,
               event |-> [variant |-> codecCall.input.expect, fields |-> <<>>,
                          signature |-> codecCall.signature,
                          bytes |-> codecCall.input.bytes],
               error |-> ""]

C27_Witness ==
    /\ ParsedBuffer
    /\ codecCall.input.expect = "extra_bytes"
    /\ Take(codecCall.input.bytes, 8) = <<95, 114, 97, 156, 212, 46, 152, 8>>
    /\ Len(codecCall.input.bytes) = 8 + 104 + 1
    /\ ~codecCall.result.ok
    /\ codecCall.result.error = "Failed to decode CompleteEvent"

(***************************************************************************)
(* The claims about the instruction builders, under BuilderSpec.           *)
(***************************************************************************)
BuyCall == builderCall.made /\ builderCall.fn = "get_buy_instructions"

BuyOfflineCall ==
    builderCall.made /\ builderCall.fn = "get_buy_instructions_offline_prepared"

SellCall == builderCall.made /\ builderCall.fn = "get_sell_instructions"

SellOfflineCall ==
    builderCall.made /\ builderCall.fn = "get_sell_instructions_offline_prepared"

Returned_Ok == builderCall.result.outcome = "ok"

\* the buy instruction is the last one returned, the sell instruction the first
BuyInstruction ==
    builderCall.result.instructions[Len(builderCall.result.instructions)]

SellInstruction == builderCall.result.instructions[1]

\* the creator a sell builder hands to instructions::sell
SellCreator ==
    IF SellOfflineCall THEN builderCall.args.creator
    ELSE builderCall.env.curve.creator

\* the account list of the doc comment of instructions::sell
DocumentedSellAccounts(payer, mint, fee_recipient, creator) ==
    LET bonding_curve == << "bonding-curve", mint >>
        meta(pubkey, is_signer, is_writable) ==
            [pubkey |-> pubkey, is_signer |-> is_signer,
             is_writable |-> is_writable]
    IN  << meta(<< "global" >>, FALSE, FALSE),
           meta(fee_recipient, FALSE, TRUE),
           meta(mint, FALSE, FALSE),
           meta(bonding_curve, FALSE, TRUE),
           meta(<< "ata", bonding_curve, mint >>, FALSE, TRUE),
           meta(<< "ata", payer, mint >>, FALSE, TRUE),
           meta(payer, TRUE, TRUE),
           meta("SYSTEM_PROGRAM", FALSE, FALSE),
           meta(<< "creator-vault", creator >>, FALSE, TRUE),
           meta("TOKEN_PROGRAM", FALSE, FALSE),
           meta("EVENT_AUTHORITY", FALSE, FALSE),
           meta("PUMPFUN", FALSE, FALSE),
           meta("GLOBAL_VOLUME_ACCUMULATOR", FALSE, TRUE),
           meta(<< "user_volume_accumulator", payer >>, FALSE, TRUE) >>

\* C21: get_buy_instructions returns an Err value, and does not abort, when
\* the probe of the curve address succeeds and the fetch-and-decode of the
\* curve account that follows it fails.
C21_CurveFailureIsErr ==
    (/\ BuyCall
     /\ builderCall.env.global_fetch = "ok"
     /\ builderCall.env.probe = "ok"
     /\ builderCall.env.curve_fetch # "ok") =>
        builderCall.result.outcome = "err"

\* C24: the sell instruction lists its 14 accounts as documented, with the
\* global volume accumulator (writable) at position 13 and the user volume
\* accumulator (writable) at position 14.
C24_SellAccountsAsDocumented ==
    ((SellCall \/ SellOfflineCall) /\ Returned_Ok) =>
        SellInstruction.accounts =
            DocumentedSellAccounts(Payer, builderCall.args.mint,
                                   builderCall.env.global_account.fee_recipient,
                                   SellCreator)

\* positions 1 to 12 are as documented
C24_FirstTwelveAsDocumented ==
    ((SellCall \/ SellOfflineCall) /\ Returned_Ok) =>
        SubSeq(SellInstruction.accounts, 1, 12) =
            SubSeq(DocumentedSellAccounts(
                       Payer, builderCall.args.mint,
                       builderCall.env.global_account.fee_recipient,
                       SellCreator), 1, 12)

\* the tolerance the caller gave, or the documented default
GivenOr500 ==
    IF builderCall.args.slippage_basis_points.some
    THEN builderCall.args.slippage_basis_points.value
    ELSE 500

\* the amount the builder adjusts for slippage
SlippageBase ==
    IF SellCall THEN builderCall.env.curve.sell_price.value
    ELSE builderCall.args.amount_sol

\* the two u64 arguments in the data of the buy or sell instruction
TradeInstruction ==
    IF SellCall \/ SellOfflineCall THEN SellInstruction ELSE BuyInstruction

ArgAmount == SubSeq(TradeInstruction.data, 9, 16)

ArgBound == SubSeq(TradeInstruction.data, 17, 24)

\* floor(amount * (10000 + bps) / 10000) and floor(amount * (10000 - bps) / 10000)
BuyBound(amount, bps) == (amount * (10000 + bps)) \div 10000

SellBound(amount, bps) == (amount * (10000 - bps)) \div 10000

\* C22: each of the four builders hands the slippage helper the caller's
\* tolerance unchanged, or exactly 500 when the caller gave none, and puts
\* the helper's result in the instruction.
C22_DefaultSlippage ==
    (builderCall.made /\ Returned_Ok) =>
        /\ builderCall.result.basis_points = SomeOf(GivenOr500)
        /\ ArgBound =
             U64Bytes(
               IF SellCall \/ SellOfflineCall
               THEN calculate_with_slippage_sell(
                        SlippageBase, GivenOr500, builderCall.cfg.narrowing).value
               ELSE calculate_with_slippage_buy(
                        SlippageBase, GivenOr500, builderCall.cfg.narrowing).value)

C22_Witness ==
    /\ SellCall
    /\ Returned_Ok
    /\ ~builderCall.args.slippage_basis_points.some
    /\ builderCall.result.basis_points = SomeOf(500)
    /\ builderCall.env.curve.sell_price.value = U64Max - 1
    /\ ArgBound = U64Bytes(((U64Max - 1) * 9500) \div 10000)

\* C23 as stated: for every u64 amount and every tolerance in 0..10000 the
\* buy bound is floor(amount * (10000 + bps) / 10000), at least the amount,
\* and the sell bound is floor(amount * (10000 - bps) / 10000), at most the
\* amount.
C23_SlippageBounds ==
    /\ BuyOfflineCall =>
          /\ Returned_Ok
          /\ ArgBound = U64Bytes(BuyBound(builderCall.args.amount_sol, GivenOr500))
          /\ BuyBound(builderCall.args.amount_sol, GivenOr500)
                 >= builderCall.args.amount_sol
    /\ (SellOfflineCall /\ builderCall.args.amount_token.some) =>
          /\ Returned_Ok
          /\ ArgBound = U64Bytes(SellBound(builderCall.args.amount_sol, GivenOr500))
          /\ SellBound(builderCall.args.amount_sol, GivenOr500)
                 <= builderCall.args.amount_sol

\* C23, amended: the sell bound is as stated for every u64 amount; the buy
\* bound is as stated when floor(amount * (10000 + bps) / 10000) fits a u64,
\* and otherwise the call aborts or returns the low bits of that value.
C23_SlippageBoundsWhenRepresentable ==
    /\ BuyOfflineCall =>
          LET bound == BuyBound(builderCall.args.amount_sol, GivenOr500)
          IN  /\ bound >= builderCall.args.amount_sol
              /\ bound <= U64Max =>
                    (Returned_Ok /\ ArgBound = U64Bytes(bound))
              /\ bound > U64Max =>
                    \/ builderCall.result.outcome = "panic"
                    \/ Returned_Ok /\ ArgBound = U64Bytes(bound % (U64Max + 1))
    /\ (SellOfflineCall /\ builderCall.args.amount_token.some) =>
          LET bound == SellBound(builderCall.args.amount_sol, GivenOr500)
          IN  /\ Returned_Ok
              /\ ArgBound = U64Bytes(bound)
              /\ bound <= builderCall.args.amount_sol

C23_Witness ==
    /\ BuyOfflineCall
    /\ Returned_Ok
    /\ builderCall.args.amount_sol = 4
    /\ builderCall.args.slippage_basis_points = SomeOf(2500)
    /\ ArgBound = U64Bytes(5)

C30_OfflineSellNeedsAmount ==
    /\ SellOfflineCall =>
          /\ builderCall.result.rpc = <<>>
          /\ IF builderCall.args.amount_token.some
             THEN /\ Returned_Ok
                  /\ ArgAmount = U64Bytes(builderCall.args.amount_token.value)
                  /\ ArgBound =
                       U64Bytes(calculate_with_slippage_sell(
                                    builderCall.args.amount_sol, GivenOr500,
                                    builderCall.cfg.narrowing).value)
             ELSE builderCall.result.outcome = "panic"
    /\ (SellCall /\ Returned_Ok /\ ~builderCall.args.amount_token.some) =>
          ArgAmount = U64Bytes(builderCall.env.balance)

C30_Witness ==
    /\ SellOfflineCall
    /\ ~builderCall.args.amount_token.some
    /\ builderCall.args.amount_sol = U64Max
    /\ builderCall.result.outcome = "panic"
    /\ builderCall.result.instructions = <<>>

=============================================================================
